---- MODULE Spec2Model ----
(***************************************************************************)
(* Model of the storage bridging scripts of robocot-vk:                    *)
(*   - the Game Storage Loader (enhancedGetItem / enhancedSetItem /        *)
(*     enhancedRemoveItem over localStorage, VK Storage and the cache),    *)
(*   - the VKBridgeWrapper of scripts/vk-iframe-fix.js (init, storageGet,  *)
(*     storageSet) and its auto-initialisation on load,                    *)
(*   - the platform (vkBridge.send) as an asynchronous request/response    *)
(*     service that may reject any request.                                *)
(*                                                                         *)
(* JavaScript runs one task at a time; an async function runs without      *)
(* interruption until it awaits a platform response. One action of the     *)
(* model is therefore one such run: the start of a call up to its first    *)
(* vkBridge.send, or the continuation that the platform's answer resumes.   *)
(***************************************************************************)
EXTENDS Integers, FiniteSets, Sequences, TLC

\* ---------------------------------------------------------------- bounds
\* calls that scripts make (the two auto-initialize calls come on top)
MaxCalls == 2
\* calls that other scripts make on the wrapper directly
MaxWrapperCalls == 1

\* ------------------------------------------------------------ value space
\* Every function of the loader and of the wrapper touches only the entries
\* of the key it is given, so one key stands for all of them.
Keys == {"k1"}
\* Values are strings (String(value) of a string is that string); "" is the
\* empty string, by which VK Storage represents a deleted entry.
Values == {"", "a", "b"}
NULL == "<null>"
UNDEFINED == "<undefined>"

\* The two VKBridgeWrapper objects that vk-iframe-fix.js creates one after
\* the other; the second assignment is the one window.VKBridgeWrapper keeps.
Wrappers == {1, 2}
WindowWrapper == 2

\* The scripts whose initialize() waits for the wrapper. The Player Progress
\* Saver runs the same loop; it touches nothing of the loader's state.
Scripts == {"loader"}

\* const maxAttempts = 50 in initialize()
maxAttempts == 50

Methods == {"VKWebAppInit", "VKWebAppStorageGet", "VKWebAppStorageSet",
            "VKWebAppCheckNativeAds", "VKWebAppShowNativeAds"}

\* The calls of the two auto-initialize blocks have slots of their own, after
\* those of the calls that scripts make.
AutoSlot(i) == MaxCalls + i

CallIds == 1..AutoSlot(2)

VARIABLES
  wrapperPresent,   \* window.VKBridgeWrapper is defined
  vkBridgeDefined,  \* typeof vkBridge !== 'undefined'
  readyState,       \* document.readyState when vk-iframe-fix.js was evaluated
  autoInitPending,  \* auto-initialize blocks that have not run init() yet
  initialized,      \* VKBridgeWrapper.initialized, per wrapper object
  localStore,       \* window.localStorage (originalLocalStorage)
  remoteStore,      \* VK Storage on the platform
  vkStorageCache,   \* the loader's Map
  calls,            \* the async calls issued so far
  nCalls,           \* number of calls issued
  last,             \* the call whose promise settled most recently
  initResults,      \* the values init() has returned to its callers so far
  adsInitialized,   \* VKBridgeWrapper.adsInitialized, per wrapper object
  thenPending,      \* auto-initialize blocks whose then-callback is to run initAds()
  ls,               \* localStorage entries that the Player Progress Saver reads and writes
  globalStore,      \* the candidate global store (window.store, ...)
  lastSavedLevel,   \* saver: lastSavedLevel
  lastSavedLevelGroup, \* saver: lastSavedLevelGroup
  saveInProgress,   \* saver: saveInProgress
  lastKnownProgress, \* saver: lastKnownProgress
  saverStarted,     \* saver: initialize() has set up its monitors
  timers,           \* saver: pending setTimeout callbacks, per kind
  saving,           \* saver: savePlayerProgress invocations awaiting storageSet
  invoked,          \* the handler that ran in the latest step and the save it asked for
  lastSave,         \* the savePlayerProgress invocation that returned in the latest step
  marker,           \* what set lastSavedLevel / lastSavedLevelGroup last
  scrape,           \* outcome of the most recent call of a scraper function
  nextSaved,        \* what the Next-button handler's save wrote to 'playerProgress',
                    \* while only the saver's own setItem timers and resumed
                    \* saves have run since
  isStartScreenLoaded,   \* loader: isStartScreenLoaded
  progressLoadAttempted, \* loader: progressLoadAttempted
  loads,            \* loader: per loadPlayerProgress invocation past its guard,
                    \* the index in gameKeys of the read it awaits (0: ended)
  loadRead,         \* the keys that loadPlayerProgress has passed to
                    \* enhancedGetItem, in order
  loadEvents,       \* number of start-screen checks and loadProgress calls so far
  sent,             \* number of vkBridge.send requests per method
  lastSet,          \* value of the most recent gameStorage.setItem per key
  localWriter,      \* per key, the call that changed its local entry last
  removed,          \* per key: a removeItem that removed the local entry has
                    \* resolved with nothing else in flight on the key, and no
                    \* setItem was issued since
  startPc,          \* per script, where its initialize() stands
  attempts,         \* per script, the counter of the loop in initialize()
  lastRemove,       \* per key, the most recently issued removeItem: its
                    \* call, whether it has resolved, whether removeItem
                    \* threw, whether it was issued with no other call on the
                    \* key in flight, whether a getItem or setItem followed
  recent            \* per key, the most recently issued setItem: its value,
                    \* its call, how its remote write went, whether it ran
                    \* with no other call on the key in flight, and whether a
                    \* removeItem was issued after it; batch counts the
                    \* setItem calls issued one before the other resolved,
                    \* up to this one, and onlySets tells that no other
                    \* call on the key was in flight with them

vars == <<wrapperPresent, vkBridgeDefined, readyState, autoInitPending,
          initialized, localStore, remoteStore, vkStorageCache, calls,
          nCalls, last, initResults, sent, lastSet, localWriter, removed,
          startPc, attempts, recent, lastRemove, adsInitialized, thenPending,
          ls, globalStore, lastSavedLevel, lastSavedLevelGroup, saveInProgress,
          lastKnownProgress, saverStarted, timers, saving, invoked, lastSave,
          marker, scrape, nextSaved, isStartScreenLoaded, progressLoadAttempted,
          loads, loadRead, loadEvents>>

saverVars == <<ls, globalStore, lastSavedLevel, lastSavedLevelGroup, saveInProgress,
               lastKnownProgress, saverStarted, timers, saving, invoked, lastSave,
               marker, scrape, nextSaved>>

loadVars == <<isStartScreenLoaded, progressLoadAttempted, loads, loadRead, loadEvents>>

startVars == <<startPc, attempts, loadVars>>

adsVars == <<adsInitialized, thenPending>>

envVars == <<wrapperPresent, vkBridgeDefined, readyState>>

\* ------------------------------------------------------------ call records
\* A JavaScript object with string values is the mapping from each key to its
\* value, undefined where the object has no such property; {} has none.
NoItems == [k \in Keys |-> UNDEFINED]

FreeCall ==
  [kind |-> "none", obj |-> WindowWrapper, key |-> NULL, value |-> NULL,
   fn |-> "none", wpc |-> "none", bpc |-> "none",
   reqValue |-> NULL, resp |-> "none", respValue |-> NULL,
   remote |-> "none", vkValue |-> NULL, localValue |-> NULL,
   localThrew |-> FALSE, initResult |-> "none",
   wroteLocal |-> FALSE, wroteCache |-> FALSE, wroteRemote |-> FALSE,
   writes |-> 0, sync |-> "none",
   keys |-> {}, respMap |-> NoItems, resultMap |-> NoItems,
   lastWriter |-> FALSE, replaced |-> NULL, afterRemove |-> FALSE,
   status |-> "free", result |-> NULL,
   resLocal |-> NULL, resCache |-> NULL]

\* The slot of a call whose promise has settled.
DoneCall == [FreeCall EXCEPT !.status = "done"]

IsSettled(rec) == rec.status \in {"resolved", "rejected"}

NewCall(kind, obj, key, value) ==
  [FreeCall EXCEPT !.kind = kind, !.obj = obj, !.key = key, !.value = value,
                   !.status = "running"]

\* The request a suspended call is waiting on.
Request(rec) ==
  IF rec.wpc = "init" THEN "VKWebAppInit"
  ELSE IF rec.wpc = "send" /\ rec.fn \in {"storageGet", "storageGetMultiple"}
       THEN "VKWebAppStorageGet"
  ELSE IF rec.wpc = "send" /\ rec.fn = "storageSet" THEN "VKWebAppStorageSet"
  ELSE IF rec.wpc = "send" /\ rec.fn = "initAds" THEN "VKWebAppCheckNativeAds"
  ELSE IF rec.wpc = "send" /\ rec.fn \in {"showInterstitialAd", "showRewardAd"}
       THEN "VKWebAppShowNativeAds"
  ELSE "none"

\* Variant: the initialized flag is not tested.
ReadyIgnoresFlag == wrapperPresent

\* window.VKBridgeWrapper && window.VKBridgeWrapper.initialized
Ready == wrapperPresent /\ initialized[WindowWrapper]

Count(m) == [sent EXCEPT ![m] = @ + 1]

At(store, k) == IF k \in Keys THEN store[k] ELSE NULL

\* The promise of call c settles; the record keeps what local storage and the
\* cache hold for the call's key at that moment.
Settled(rec, status, result, newLocal, newCache) ==
  [rec EXCEPT !.status = status, !.result = result,
              !.fn = "none", !.wpc = "none", !.bpc = "none",
              !.reqValue = NULL, !.resp = "none", !.respValue = NULL,
              !.respMap = NoItems,
              !.resLocal = At(newLocal, rec.key),
              !.resCache = At(newCache, rec.key)]

\* No setItem has been issued for the key.
NoSet == [value |-> UNDEFINED, call |-> 0, state |-> "none", alone |-> TRUE,
          removedAfter |-> FALSE, batch |-> 0, onlySets |-> TRUE]

\* No removeItem has been issued for the key.
NoRemove == [call |-> 0, state |-> "none", threw |-> FALSE, alone |-> TRUE,
             later |-> FALSE]


\* ------------------------------------------------------- Player Progress Saver
\* Level and group numbers as the saver sees them: a number, undefined or null.
UNDEF_N == -1
NULL_N == -2
MaxLevel == 1
Levels == 0..MaxLevel
LevelVals == Levels \cup {UNDEF_N, NULL_N}

\* A level group of the game: an object with isCustom and levels (an array,
\* of which only the length matters; -1 when the property is missing), or a
\* null element.
GroupObj(custom, n) == [k |-> "obj", isCustom |-> custom, levels |-> n]
GroupNull == [k |-> "null", isCustom |-> FALSE, levels |-> -1]

\* levelGroups: an array of groups, or something that is no array (undefined).
GroupsArray(items) == [arr |-> TRUE, items |-> items]
NoLevelGroups == [arr |-> FALSE, items |-> << >>]

\* The levelGroups values considered.
LevelGroupsSet ==
  { NoLevelGroups,
    GroupsArray(<< >>),
    GroupsArray(<<GroupObj(FALSE, 2)>>),
    GroupsArray(<<GroupObj(FALSE, 1), GroupObj(FALSE, 2)>>),
    GroupsArray(<<GroupObj(FALSE, 1), GroupObj(TRUE, 2), GroupObj(FALSE, 1)>>),
    GroupsArray(<<GroupObj(TRUE, 2)>>),
    GroupsArray(<<GroupObj(FALSE, -1)>>),
    GroupsArray(<<GroupObj(FALSE, 0)>>),
    GroupsArray(<<GroupObj(FALSE, 1), GroupObj(FALSE, 0)>>),
    GroupsArray(<<GroupObj(FALSE, 1), GroupNull>>) }

\* What calculateNextLevel hands back: null (found = FALSE) or
\* { nextLevel, nextLevelGroup }; threw when an exception leaves it.
NoNext == [threw |-> FALSE, found |-> FALSE, nextLevel |-> UNDEF_N, nextLevelGroup |-> UNDEF_N]
NextThrown == [NoNext EXCEPT !.threw = TRUE]
NextAt(l, g) == [NoNext EXCEPT !.found = TRUE, !.nextLevel = l, !.nextLevelGroup = g]

\* levelGroups.filter(group => !group.isCustom), as the 0-based indices that
\* the kept groups have in levelGroups.
RECURSIVE nonCustomFrom(_, _)
nonCustomFrom(items, i) ==
  IF i > Len(items) THEN << >>
  ELSE IF items[i].isCustom THEN nonCustomFrom(items, i + 1)
       ELSE <<i - 1>> \o nonCustomFrom(items, i + 1)

\* Variant: no group is filtered out.
allGroups(items) == [i \in 1..Len(items) |-> i - 1]

nonCustomGroups(items) == nonCustomFrom(items, 1)

\* nonCustomGroups.indexOf(levelGroups[currentLevelGroup]): 0-based, -1 when
\* the group is not among them (or the index names no element).
indexInFiltered(nc, currentLevelGroup) ==
  IF \E p \in 1..Len(nc) : nc[p] = currentLevelGroup
  THEN (CHOOSE p \in 1..Len(nc) : nc[p] = currentLevelGroup) - 1
  ELSE -1

\* currentLevel + 1 for a number or null (null + 1 is 1); undefined + 1 is
\* NaN, which compares false with everything.
plusOne(n) == IF n = NULL_N THEN 1 ELSE n + 1

\* calculateNextLevel, the body of its try block.
calculateNextLevelTry(currentLevel, currentLevelGroup, levelGroups) ==
  IF ~levelGroups.arr THEN NoNext
  ELSE IF \E i \in 1..Len(levelGroups.items) : levelGroups.items[i].k = "null"
  THEN NextThrown
  ELSE LET nc == nonCustomGroups(levelGroups.items)
           f == indexInFiltered(nc, currentLevelGroup)
       IN IF Len(nc) = 0 THEN NoNext
          ELSE IF f = -1 THEN NoNext
          ELSE LET len == levelGroups.items[nc[f + 1] + 1].levels
               IN IF len = -1 THEN NextThrown
                  ELSE IF currentLevel # UNDEF_N /\ plusOne(currentLevel) < len
                  THEN NextAt(plusOne(currentLevel), nc[f + 1])
                  ELSE IF f + 1 < Len(nc)
                  THEN NextAt(0, nc[f + 2])
                  ELSE NoNext

\* calculateNextLevel: the catch block logs and returns null.
calculateNextLevel(currentLevel, currentLevelGroup, levelGroups) ==
  LET r == calculateNextLevelTry(currentLevel, currentLevelGroup, levelGroups)
  IN IF r.threw THEN NoNext ELSE r


\* ---- JavaScript values met by the scraper
\* A value that may be the game object: an object with currentLevel,
\* currentLevelGroup and levelGroups (any of them missing), or undefined, null,
\* a number, or a string (Str: the JSON text of such an object).
Obj(level, group, lg) == [k |-> "obj", level |-> level, group |-> group, lg |-> lg]
Str(level, group, lg) == [k |-> "str", level |-> level, group |-> group, lg |-> lg]
Other(kind) == [k |-> kind, level |-> UNDEF_N, group |-> UNDEF_N, lg |-> NoLevelGroups]
Undef == Other("undef")

\* A parsed state: its own kind and properties, its game property, and the
\* kind and game property of its app property.
StateVal(self, game, appKind, appGame) ==
  [self |-> self, game |-> game, appKind |-> appKind, appGame |-> appGame]

\* A progress object { currentLevel, currentLevelGroup, levelGroups, ... }, or
\* null (some = FALSE).
Progress(level, group, lg) == [some |-> TRUE, level |-> level, group |-> group, lg |-> lg]
NoProgress == [some |-> FALSE, level |-> UNDEF_N, group |-> UNDEF_N, lg |-> NoLevelGroups]

\* An entry of localStorage as getItem and JSON.parse see it: absent (null),
\* the empty string, text that is no JSON, or JSON text with its parsed value.
Absent == [c |-> "absent", v |-> StateVal(Undef, Undef, "undef", Undef)]
Empty == [c |-> "empty", v |-> StateVal(Undef, Undef, "undef", Undef)]
Malformed == [c |-> "malformed", v |-> StateVal(Undef, Undef, "undef", Undef)]
Json(v) == [c |-> "json", v |-> v]

\* JavaScript truthiness of such a value (numbers and strings met here are
\* non-zero and non-empty).
IsTruthy(x) == x.k \in {"num", "str", "obj"}

\* Outcome of a piece of code: it threw, or it returned progress p (null when
\* p.some is FALSE); known is lastKnownProgress afterwards.
Returned(p, known) == [threw |-> FALSE, p |-> p, known |-> known]
Threw(known) == [threw |-> TRUE, p |-> NoProgress, known |-> known]

\* const gameState = state.game || state.app?.game || state;
\* Reading a property of null throws; of a number or string gives undefined.
gameStateThrows(state) == state.self.k \in {"null", "undef"}

gameStateOf(state) ==
  LET game == IF state.self.k = "obj" THEN state.game ELSE Undef
      appGame == IF state.self.k = "obj" /\ state.appKind = "obj"
                 THEN state.appGame ELSE Undef
  IN IF IsTruthy(game) THEN game
     ELSE IF IsTruthy(appGame) THEN appGame
     ELSE state.self

\* Outcome of a try block inside the loop: it threw, it returned progress p
\* (found), or it ran to its end.
NotFound == [threw |-> FALSE, found |-> FALSE, p |-> NoProgress]
Found(p) == [threw |-> FALSE, found |-> TRUE, p |-> p]
TryThrew == [threw |-> TRUE, found |-> FALSE, p |-> NoProgress]

\* A property of g that only an object has.
levelOf(g) == IF g.k = "obj" THEN g.level ELSE UNDEF_N
groupOf(g) == IF g.k = "obj" THEN g.group ELSE UNDEF_N
groupsOf(g) == IF g.k = "obj" THEN g.lg ELSE NoLevelGroups

\* gameState && (gameState.currentLevel !== undefined ||
\*               gameState.currentLevelGroup !== undefined)
hasLevelInfo(g) == IsTruthy(g) /\ (levelOf(g) # UNDEF_N \/ groupOf(g) # UNDEF_N)

\* extractProgressFromState, the inner try block for the entry e of a key:
\* JSON.parse throws on text that is no JSON, state.game throws on null.
stateTry(e) ==
  IF e.c = "malformed" THEN TryThrew
  ELSE IF gameStateThrows(e.v) THEN TryThrew
  ELSE LET g == gameStateOf(e.v)
       IN IF hasLevelInfo(g) THEN Found(Progress(levelOf(g), groupOf(g), groupsOf(g)))
          ELSE NotFound

\* The try block inside its catch block ("Try parsing nested JSON"): parse
\* again, and if parsed.game is truthy, JSON.parse(parsed.game): a string
\* holding the JSON text of a game object gives that object, an object
\* (converted to '[object Object]') throws, a number gives the number.
nestedTry(e) ==
  IF e.c = "malformed" THEN TryThrew
  ELSE IF gameStateThrows(e.v) THEN TryThrew
  ELSE LET game == IF e.v.self.k = "obj" THEN e.v.game ELSE Undef
       IN IF ~IsTruthy(game) THEN NotFound
          ELSE IF game.k = "obj" THEN TryThrew
          ELSE IF game.k = "str" /\ game.level # UNDEF_N
          THEN Found(Progress(game.level, game.group, game.lg))
          ELSE NotFound

\* One round of the loop over possibleKeys: an absent or empty entry is
\* skipped; an exception of the inner try block leads to the nested attempt,
\* whose own exception is ignored.
fromStateKey(e) ==
  IF e.c \in {"absent", "empty"} THEN NotFound
  ELSE LET t == stateTry(e)
       IN IF ~t.threw THEN t
          ELSE LET n == nestedTry(e)
               IN IF n.threw THEN NotFound ELSE n

\* The keys that extractProgressFromState tries in turn.
possibleKeys == <<"persist:root", "reduxState", "state", "app", "progress", "gameState">>

\* localStorage.getItem(key) for a store that holds entries for some keys.
entryOf(store, key) == IF key \in DOMAIN store THEN store[key] ELSE Absent

RECURSIVE fromStateKeys(_, _)
fromStateKeys(store, i) ==
  IF i > Len(possibleKeys) THEN NotFound
  ELSE LET r == fromStateKey(entryOf(store, possibleKeys[i]))
       IN IF r.found THEN r ELSE fromStateKeys(store, i + 1)

\* "Fall back to previously saved progress in localStorage": the try block
\* for the entry of 'playerProgress'.
savedTry(e) ==
  IF e.c = "malformed" THEN TryThrew
  ELSE IF e.v.self.k \in {"null", "undef"} THEN TryThrew
  ELSE IF levelOf(e.v.self) # UNDEF_N
  THEN Found(Progress(levelOf(e.v.self), groupOf(e.v.self), groupsOf(e.v.self)))
  ELSE NotFound

\* The fallback: skipped for an absent or empty entry; its catch block logs.
fromSavedProgress(e) ==
  IF e.c \in {"absent", "empty"} THEN NotFound
  ELSE LET t == savedTry(e)
       IN IF t.threw THEN NotFound ELSE t

\* "Final fallback to individual keys": Number() of the entries of
\* 'currentLevel' and 'currentLevelGroup' (NULL_N: no entry); levelGroups is
\* not part of the object built here.
fromSingleKeys(level, group) ==
  IF level # NULL_N \/ group # NULL_N
  THEN Found(Progress(IF level # NULL_N THEN level ELSE UNDEF_N,
                      IF group # NULL_N THEN group ELSE UNDEF_N, NoLevelGroups))
  ELSE NotFound

\* A candidate global store: undefined, or an object whose state is read with
\* getState() or .state; getState may throw an Error.
NoStore == [k |-> "undef", throws |-> FALSE, state |-> StateVal(Undef, Undef, "undef", Undef)]
Store(state) == [k |-> "obj", throws |-> FALSE, state |-> state]
StoreThrowing == [k |-> "obj", throws |-> TRUE, state |-> StateVal(Undef, Undef, "undef", Undef)]

\* const game = state?.game || state?.app?.game || state;
globalGameOf(state) ==
  IF state.self.k \in {"null", "undef"} THEN state.self ELSE gameStateOf(state)

\* extractProgressFromGlobals, the body of its try block for the first store
\* that is defined (the others are undefined).
fromGlobalsTry(store, known) ==
  IF store.k = "undef" THEN Returned(NoProgress, known)
  ELSE IF store.throws THEN Threw(known)
  ELSE LET game == globalGameOf(store.state)
       IN IF hasLevelInfo(game)
          THEN LET p == Progress(levelOf(game), groupOf(game), groupsOf(game))
               IN Returned(p, p)
          ELSE Returned(NoProgress, known)

\* extractProgressFromGlobals: the catch block logs error.message and the
\* function returns null.
extractProgressFromGlobals(store, known) ==
  LET r == fromGlobalsTry(store, known)
  IN IF r.threw THEN Returned(NoProgress, r.known) ELSE r

\* extractProgressFromState, the body of its outer try block. storageThrows:
\* localStorage.getItem throws (storage not accessible).
fromStateTry(st, store, known, storageThrows) ==
  IF storageThrows THEN Threw(known)
  ELSE LET a == fromStateKeys(st.entries, 1)
           b == fromSavedProgress(st.playerProgress)
           c == fromSingleKeys(st.currentLevel, st.currentLevelGroup)
           g == extractProgressFromGlobals(store, known)
       IN IF a.found THEN Returned(a.p, a.p)
          ELSE IF b.found THEN Returned(b.p, b.p)
          ELSE IF c.found THEN Returned(c.p, c.p)
          ELSE IF g.threw THEN g
          ELSE IF g.p.some THEN g
          ELSE Returned(known, known)

\* Variant: no outer catch block.
extractProgressFromStateRethrows(st, store, known, storageThrows) ==
  fromStateTry(st, store, known, storageThrows)

\* extractProgressFromState: the outer catch block logs and returns null.
extractProgressFromState(st, store, known, storageThrows) ==
  LET r == fromStateTry(st, store, known, storageThrows)
  IN IF r.threw THEN Returned(NoProgress, r.known) ELSE r

\* The localStorage entries that the saver looks at: the entries of the keys
\* of possibleKeys that the page uses, 'playerProgress', and the numbers that
\* Number() makes of 'currentLevel' and 'currentLevelGroup' (NULL_N: no entry),
\* and what JSON.parse makes of 'levelGroups'.
StateKeys == {"persist:root", "state"}
NoEntries == [entries |-> [k \in StateKeys |-> Absent], playerProgress |-> Absent,
              currentLevel |-> NULL_N, currentLevelGroup |-> NULL_N,
              levelGroups |-> NoLevelGroups]

\* Outcome of a call of a scraper function: whether an exception left it
\* (threw), whether its try block threw (caught), and what it returned.
\* args holds the arguments of a call of calculateNextLevel that keeps them.
NoArgs == <<UNDEF_N, UNDEF_N, NoLevelGroups>>
NoScrape == [fn |-> "none", threw |-> FALSE, caught |-> FALSE, p |-> NoProgress,
             next |-> NoNext, args |-> NoArgs]
Scraped(fn, threw, caught, p, next) ==
  [fn |-> fn, threw |-> threw, caught |-> caught, p |-> p, next |-> next,
   args |-> NoArgs]

\* The pending callbacks of setTimeout, per kind of listener.
TimerKinds == {"setItem", "storage"}
NoTimers == [t \in TimerKinds |-> 0]

\* No savePlayerProgress invocation has returned yet.
NoSave == [returned |-> FALSE, skipped |-> FALSE, ready |-> FALSE, local |-> "none",
           remote |-> "none", compat |-> "none", steps |-> << >>]

\* No handler of the saver ran in the latest step.
NoHandler == [by |-> "none", called |-> FALSE, data |-> NoProgress]

\* ------------------------------------------------------------------- Init
InitBridge ==
  /\ wrapperPresent \in BOOLEAN
  /\ vkBridgeDefined \in BOOLEAN
  /\ (~wrapperPresent => ~vkBridgeDefined)
  /\ readyState \in {"loading", "complete"}
  /\ (~wrapperPresent => readyState = "complete")
  /\ autoInitPending = IF wrapperPresent THEN {1, 2} ELSE {}
  /\ initialized = [w \in Wrappers |-> FALSE]
  /\ adsInitialized = [w \in Wrappers |-> FALSE]
  /\ thenPending = {}
  /\ localStore \in [Keys -> {NULL, "a"}]
  /\ remoteStore \in [Keys -> {NULL, "b"}]
  /\ (~vkBridgeDefined => remoteStore = [k \in Keys |-> NULL])
  /\ vkStorageCache = [k \in Keys |-> UNDEFINED]
  /\ calls = [c \in CallIds |-> FreeCall]
  /\ nCalls = 0
  /\ last = FreeCall
  /\ initResults = {}
  /\ sent = [m \in Methods |-> 0]
  /\ lastSet = [k \in Keys |-> UNDEFINED]
  /\ localWriter = [k \in Keys |-> 0]
  /\ removed = [k \in Keys |-> FALSE]
  /\ startPc = [s \in Scripts |-> "idle"]
  /\ attempts = [s \in Scripts |-> 0]
  /\ isStartScreenLoaded = FALSE
  /\ progressLoadAttempted = FALSE
  /\ loads = << >>
  /\ loadRead = << >>
  /\ loadEvents = 0
  /\ recent = [k \in Keys |-> NoSet]
  /\ lastRemove = [k \in Keys |-> NoRemove]

\* The Player Progress Saver before its script has run, on a page whose
\* localStorage holds none of the entries it looks at.
InitSaverIdle ==
  /\ ls = NoEntries
  /\ globalStore = NoStore
  /\ lastSavedLevel = NULL_N
  /\ lastSavedLevelGroup = NULL_N
  /\ saveInProgress = FALSE
  /\ lastKnownProgress = NoProgress
  /\ saverStarted = FALSE
  /\ timers = NoTimers
  /\ saving = << >>
  /\ invoked = NoHandler
  /\ lastSave = NoSave
  /\ marker = "none"
  /\ scrape = NoScrape
  /\ nextSaved = NoProgress

Init == InitBridge /\ InitSaverIdle

\* ------------------------------------------------- JavaScript value helpers
JTRUE == "true"
JFALSE == "false"

\* What one run of a call leaves behind: its record, local storage, cache.
Out(rec, local, cache) == [rec |-> rec, local |-> local, cache |-> cache]

\* Which localStorage operations throw during one run (quota exceeded on
\* setItem, a storage error on getItem/removeItem). catchGetItem is the
\* getItem of enhancedGetItem's catch block.
Faults == [setItem : BOOLEAN, getItem : BOOLEAN, catchGetItem : BOOLEAN,
           removeItem : BOOLEAN]

\* The fault combinations that differ for a call of the given kind: the
\* localStorage operations its code performs.
FaultsOf(kind) ==
  {f \in Faults :
     /\ (kind # "getItem" => ~f.getItem /\ ~f.catchGetItem)
     /\ (kind \notin {"getItem", "setItem"} => ~f.setItem)
     /\ (kind # "removeItem" => ~f.removeItem)}

\* ---------------------------------------------------------- VKBridgeWrapper
\* initAds, showInterstitialAd, showRewardAd: the functions that return
\* result && result.result of their platform request, and false when they
\* give up.
AdsFns == {"initAds", "showInterstitialAd", "showRewardAd"}

\* The return value of storageGetMultiple is an object; the call record keeps
\* its properties in resultMap.
JOBJECT == "<object>"

\* Variant: every storage function returns null when it gives up.
FailValueNull(fn) == NULL

\* Value a storage function returns when it gives up (not initialized, or a
\* rejected request caught by its catch block): null, false, or {}.
FailValue(fn) ==
  IF fn = "storageGet" THEN NULL
  ELSE IF fn = "storageGetMultiple" THEN JOBJECT
  ELSE JFALSE

\* Variant: the request is sent without looking at this.initialized.
storageEnterUnchecked(rec, fn, bpc, reqValue) ==
  [rec EXCEPT !.fn = fn, !.bpc = bpc, !.reqValue = reqValue,
              !.resp = "none", !.respValue = NULL, !.wpc = "send"]

\* Synchronous part of storageGet / storageSet on object rec.obj:
\*   if (!this.initialized) await this.init();   -- init() sends VKWebAppInit
\*   if (!this.initialized) return null/false;   -- unless vkBridge is undefined
\*   await vkBridge.send('VKWebAppStorageGet/Set', ...)
\* wpc = "returned" means the function returned FailValue without suspending.
storageEnter(rec, fn, bpc, reqValue) ==
  LET r == [rec EXCEPT !.fn = fn, !.bpc = bpc, !.reqValue = reqValue,
                       !.resp = "none", !.respValue = NULL]
  IN IF initialized[rec.obj] THEN [r EXCEPT !.wpc = "send"]
     ELSE IF vkBridgeDefined THEN [r EXCEPT !.wpc = "init"]
     ELSE [r EXCEPT !.wpc = "returned", !.initResult = JFALSE]

\* Synchronous part of init(): returns true when already initialized, false
\* when vkBridge is undefined, and otherwise sends VKWebAppInit and suspends.
initEnter(rec) ==
  LET r == [rec EXCEPT !.fn = "init", !.resp = "none", !.respValue = NULL]
  IN IF initialized[rec.obj] THEN [r EXCEPT !.wpc = "returned", !.initResult = JTRUE]
     ELSE IF vkBridgeDefined THEN [r EXCEPT !.wpc = "init"]
     ELSE [r EXCEPT !.wpc = "returned", !.initResult = JFALSE]

\* init() after the platform answered VKWebAppInit: the flag of the object.
initFlagAfter(rec) ==
  IF rec.resp = "ok" THEN [initialized EXCEPT ![rec.obj] = TRUE] ELSE initialized

\* init() after the platform answered: its return value.
initReturn(rec) == IF rec.resp = "ok" THEN JTRUE ELSE JFALSE

\* storageGet / storageSet / storageGetMultiple after the platform answered
\* the storage request.
storageReturn(rec) ==
  IF rec.resp = "ok"
  THEN IF rec.fn = "storageGet" THEN rec.respValue
       ELSE IF rec.fn = "storageGetMultiple" THEN JOBJECT
       ELSE IF rec.fn \in AdsFns THEN rec.respValue
       ELSE JTRUE
  ELSE FailValue(rec.fn)

\* initAds after the platform answered VKWebAppCheckNativeAds:
\*   this.adsInitialized = result && result.result;
\* the catch block leaves the flag alone.
adsFlagAfter(rec) ==
  IF rec.fn = "initAds" /\ rec.resp = "ok"
  THEN [adsInitialized EXCEPT ![rec.obj] = (rec.respValue = JTRUE)]
  ELSE adsInitialized

\* storageGetMultiple, the object it returns:
\*   const data = {};
\*   result.keys.forEach(item => { data[item.key] = item.value; });
\* and {} from the catch block.
multipleData(rec) ==
  IF rec.resp = "ok"
  THEN [k \in Keys |-> IF rec.respMap[k] # UNDEFINED THEN rec.respMap[k] ELSE NoItems[k]]
  ELSE NoItems

\* ------------------------------------------------------- Game Storage Loader
\* Variant: an existing entry is not overwritten.
localSetItemKeepsExisting(local, key, value) ==
  IF local[key] = NULL THEN [local EXCEPT ![key] = value] ELSE local

\* originalLocalStorage.setItem(key, value) when it does not throw.
localSetItem(local, key, value) == [local EXCEPT ![key] = value]

\* originalLocalStorage.removeItem(key) when it does not throw.
localRemoveItem(local, key) == [local EXCEPT ![key] = NULL]

\* Variant: the cache is not updated.
cacheSetSkipped(cache, key, value) == cache

\* vkStorageCache.set(key, value)
cacheSet(cache, key, value) == [cache EXCEPT ![key] = value]

\* vkStorageCache.delete(key)
cacheDelete(cache, key) == [cache EXCEPT ![key] = UNDEFINED]

\* enhancedGetItem, catch block: log, then
\*   return originalLocalStorage.getItem(key);
\* which rejects the promise if that getItem throws as well.
getCatch(rec, local, cache, f) ==
  LET r == [rec EXCEPT !.localThrew = TRUE]
  IN IF f.catchGetItem
     THEN Out(Settled(r, "rejected", NULL, local, cache), local, cache)
     ELSE Out(Settled(r, "resolved", local[rec.key], local, cache), local, cache)

\* Variant: the fallback returns null once it has read the local value.
getFallbackResultNull(localValue) == NULL

\* enhancedGetItem, what the fallback returns for the local value it read:
\*   if (localValue !== null) { ...; return localValue; } else { return null; }
getFallbackResult(localValue) == localValue

\* Variant: the null test on the local value is missing.
getSyncsUpAlways(localValue) == Ready

\* enhancedGetItem, "Sync to VK Storage if available": the condition under
\* which the local value is written up with storageSet.
getSyncsUp(localValue) == localValue # NULL /\ Ready

\* Variant: the empty string is written up.
getSyncValueEmpty(localValue) == ""

\* enhancedGetItem, the value written up:
\*   await window.VKBridgeWrapper.storageSet(key, localValue);
getSyncValue(localValue) == localValue

\* enhancedGetItem, "Fallback to localStorage": read the local value; when it
\* is not null and the wrapper is ready, await storageSet(key, localValue)
\* and then return it; return null when there is none.
getLocalPhase(rec, local, cache, f) ==
  IF f.getItem
  THEN getCatch(rec, local, cache, f)
  ELSE LET lv == local[rec.key]
           r == [rec EXCEPT !.localValue = lv]
       IN IF getSyncsUp(lv)
          THEN LET w == storageEnter([r EXCEPT !.wroteRemote = TRUE,
                                                !.writes = @ + 1],
                                     "storageSet", "get:sync", getSyncValue(lv))
               IN IF w.wpc = "returned"
                  THEN Out(Settled([w EXCEPT !.sync = "failed"], "resolved",
                                   getFallbackResult(lv), local, cache),
                           local, cache)
                  ELSE Out(w, local, cache)
          ELSE Out(Settled(r, "resolved", getFallbackResult(lv), local, cache),
                   local, cache)

\* enhancedGetItem, the test on what storageGet returned:
\*   if (vkValue !== null && vkValue !== '')
getHasRemoteValue(vkValue) == vkValue # NULL /\ vkValue # ""

\* enhancedGetItem after storageGet returned vkValue: a value other than null
\* and '' goes to the cache, then to local storage, and is returned; anything
\* else falls through to the local phase.
getAfterRead(rec, vkValue, local, cache, f) ==
  LET how == IF rec.resp = "fail" THEN "failed"
             ELSE IF getHasRemoteValue(vkValue) THEN "value" ELSE "empty"
      r == [rec EXCEPT !.vkValue = vkValue, !.remote = how]
  IN IF getHasRemoteValue(vkValue)
     THEN LET cache2 == cacheSet(cache, rec.key, vkValue)
              local2 == localSetItem(local, rec.key, vkValue)
              rc == [r EXCEPT !.wroteCache = TRUE, !.replaced = local[rec.key]]
          IN IF f.setItem
             THEN getCatch(rc, local, cache2, f)
             ELSE Out(Settled([rc EXCEPT !.wroteLocal = TRUE], "resolved", vkValue,
                              local2, cache2), local2, cache2)
     ELSE getLocalPhase(r, local, cache, f)

\* enhancedGetItem up to its first await.
getStart(rec, local, cache, f) ==
  IF Ready
  THEN LET w == storageEnter(rec, "storageGet", "get:read", NULL)
       IN IF w.wpc = "returned"
          THEN getAfterRead([w EXCEPT !.resp = "fail"], NULL, local, cache, f)
          ELSE Out(w, local, cache)
  ELSE getLocalPhase([rec EXCEPT !.remote = "skipped"], local, cache, f)

\* What the promise of enhancedSetItem resolves to: the function has no
\* return statement on any path.
setResult(localWritten, success) == UNDEFINED

\* Variant: the catch block rethrows after logging.
setCatchRethrows(rec, local, cache) ==
  Out(Settled([rec EXCEPT !.localThrew = TRUE, !.remote = "skipped"],
              "rejected", NULL, local, cache), local, cache)

\* enhancedSetItem, catch block: log only.
setCatch(rec, local, cache) ==
  Out(Settled([rec EXCEPT !.localThrew = TRUE, !.remote = "skipped"],
              "resolved", setResult(FALSE, JFALSE), local, cache), local, cache)

\* Variant: the cache is updated whatever storageSet returned.
setCacheAlways(cache, key, value, success) == cacheSet(cache, key, value)

\* enhancedSetItem: if (success) vkStorageCache.set(key, String(value))
setCache(cache, key, value, success) ==
  IF success = JTRUE THEN cacheSet(cache, key, value) ELSE cache

\* Variant: the local write is repeated once the remote write has succeeded.
setAfterWriteRewritesLocal(rec, success, local, cache) ==
  LET ok == success = JTRUE
      cache2 == IF ok THEN cacheSet(cache, rec.key, rec.value) ELSE cache
      local2 == IF ok THEN localSetItem(local, rec.key, rec.value) ELSE local
      r == [rec EXCEPT !.remote = IF ok THEN "ok" ELSE "failed", !.wroteCache = ok]
  IN Out(Settled(r, "resolved", setResult(TRUE, success), local2, cache2),
         local2, cache2)

\* enhancedSetItem after storageSet returned: the cache is updated on success.
setAfterWrite(rec, success, local, cache) ==
  LET cache2 == setCache(cache, rec.key, rec.value, success)
      r == [rec EXCEPT !.remote = IF success = JTRUE THEN "ok" ELSE "failed",
                       !.wroteCache = (success = JTRUE)]
  IN Out(Settled(r, "resolved", setResult(TRUE, success), local, cache2), local, cache2)

\* Variant: the empty string is replicated.
setRemoteValueEmpty(value) == ""

\* enhancedSetItem, the value handed to storageSet: String(value), which for
\* a string is the string itself.
setRemoteValue(value) == value

\* enhancedSetItem up to its first await: the local write comes first; when it
\* throws, the catch block runs and the remote write is not attempted.
setStart(rec, local, cache, f) ==
  IF f.setItem
  THEN setCatch(rec, local, cache)
  ELSE LET local2 == localSetItem(local, rec.key, rec.value)
           r == [rec EXCEPT !.wroteLocal = TRUE]
       IN IF Ready
          THEN LET w == storageEnter([r EXCEPT !.wroteRemote = TRUE,
                                                !.writes = @ + 1],
                                     "storageSet", "set:write",
                                     setRemoteValue(rec.value))
               IN IF w.wpc = "returned"
                  THEN setAfterWrite(w, JFALSE, local2, cache)
                  ELSE Out(w, local2, cache)
          ELSE Out(Settled([r EXCEPT !.remote = "skipped"],
                           "resolved", setResult(TRUE, JFALSE), local2, cache),
                   local2, cache)

\* enhancedRemoveItem, catch block: log only.
rmCatch(rec, local, cache) ==
  Out(Settled([rec EXCEPT !.localThrew = TRUE, !.remote = "skipped"],
              "resolved", UNDEFINED, local, cache), local, cache)

\* enhancedRemoveItem after storageSet(key, '') returned (result ignored).
rmAfterWrite(rec, success, local, cache) ==
  LET r == [rec EXCEPT !.remote = IF success = JTRUE THEN "ok" ELSE "failed"]
  IN Out(Settled(r, "resolved", UNDEFINED, local, cache), local, cache)

\* enhancedRemoveItem up to its first await: remove locally, delete the cache
\* entry, then write '' to VK Storage when the wrapper is ready.
rmStart(rec, local, cache, f) ==
  IF f.removeItem
  THEN rmCatch(rec, local, cache)
  ELSE LET local2 == localRemoveItem(local, rec.key)
           cache2 == cacheDelete(cache, rec.key)
           r == [rec EXCEPT !.wroteLocal = TRUE, !.wroteCache = TRUE]
       IN IF Ready
          THEN LET w == storageEnter([r EXCEPT !.wroteRemote = TRUE,
                                                !.writes = @ + 1],
                                     "storageSet", "rm:write", "")
               IN IF w.wpc = "returned"
                  THEN rmAfterWrite(w, JFALSE, local2, cache2)
                  ELSE Out(w, local2, cache2)
          ELSE Out(Settled([r EXCEPT !.remote = "skipped"],
                           "resolved", UNDEFINED, local2, cache2), local2, cache2)

\* The caller of a wrapper function resumes with its return value r: a direct
\* call of the wrapper settles, a loader function continues after its await.
bridgeResume(rec, r, local, cache, f) ==
  CASE rec.bpc = "get:read"  -> getAfterRead(rec, r, local, cache, f)
    [] rec.bpc = "get:sync"  -> Out(Settled([rec EXCEPT !.sync = IF r = JTRUE THEN "ok"
                                                                ELSE "failed"],
                                            "resolved",
                                            getFallbackResult(rec.localValue),
                                            local, cache), local, cache)
    [] rec.bpc = "set:write" -> setAfterWrite(rec, r, local, cache)
    [] rec.bpc = "rm:write"  -> rmAfterWrite(rec, r, local, cache)
    [] rec.bpc = "multiple"  -> Out(Settled([rec EXCEPT !.resultMap = multipleData(rec)],
                                            "resolved", r, local, cache), local, cache)
    [] OTHER                 -> Out(Settled(rec, "resolved", r, local, cache), local, cache)

\* A run that ends suspended has just sent the request it waits on.
SentAfter(rec) == IF Request(rec) # "none" THEN Count(Request(rec)) ELSE sent

\* ------------------------------------------------------------------ actions
\* One run of call c ended with record rec: a settled call leaves its slot
\* and becomes the last settled call.
StoreCall(c, rec, initReturned) ==
  /\ calls' = [calls EXCEPT ![c] = IF IsSettled(rec) THEN DoneCall ELSE rec]
  /\ last' = IF IsSettled(rec) THEN rec ELSE last
  /\ sent' = SentAfter(rec)
  /\ initResults' = IF initReturned THEN initResults \cup {rec.initResult}
                    ELSE initResults

\* How the remote replication of a setItem stands after a run of it.
setState(rec) ==
  IF rec.localThrew THEN "threw"
  ELSE IF ~IsSettled(rec) THEN "flying"
  ELSE rec.remote

\* The most recently issued setItem of the key of call c after a run of c.
recentAfter(c, rec) ==
  LET k == rec.key
      r == recent[k]
      new == calls[c].status = "free"
      flying == {d \in CallIds : calls[d].status = "running" /\ calls[d].key = k}
      busy == flying # {}
      sets == \A d \in flying : calls[d].kind = "setItem"
  IN IF new /\ rec.kind = "setItem"
     THEN [value |-> rec.value, call |-> c, state |-> setState(rec),
           alone |-> ~busy, removedAfter |-> FALSE,
           batch |-> IF busy /\ sets THEN r.batch + 1 ELSE 1,
           onlySets |-> IF busy THEN sets /\ r.onlySets ELSE TRUE]
     ELSE IF new
     THEN [r EXCEPT !.alone = IF r.state = "flying" THEN FALSE ELSE @,
                    !.removedAfter = IF rec.kind = "removeItem" THEN TRUE ELSE @,
                    !.onlySets = IF busy THEN FALSE ELSE @]
     ELSE IF c = r.call /\ r.state = "flying"
     THEN [r EXCEPT !.state = setState(rec)]
     ELSE r

\* The most recently issued removeItem of the key of call c after a run of c.
lastRemoveAfter(c, rec) ==
  LET k == rec.key
      r == lastRemove[k]
      new == calls[c].status = "free"
      busy == \E d \in CallIds : calls[d].status = "running" /\ calls[d].key = k
  IN IF new /\ rec.kind = "removeItem"
     THEN [call |-> c, state |-> IF IsSettled(rec) THEN "done" ELSE "flying",
           threw |-> rec.localThrew, alone |-> ~busy, later |-> FALSE]
     ELSE IF new
     THEN [r EXCEPT !.later = (r.state # "none")]
     ELSE IF c = r.call /\ IsSettled(rec)
     THEN [r EXCEPT !.state = "done"]
     ELSE r

\* One run of a loader call c produced out: publish it. The run changed the
\* local entry of its key if the call's wroteLocal flag rose in it; a call
\* that settles notes whether it is still the last one to have done so.
Publish(c, out) ==
  LET rose == out.rec.wroteLocal /\ ~calls[c].wroteLocal
      writer == IF rose THEN [localWriter EXCEPT ![out.rec.key] = c] ELSE localWriter
      alone == \A d \in CallIds \ {c} :
                 ~(calls[d].status = "running" /\ calls[d].key = out.rec.key)
  IN /\ StoreCall(c, [out.rec EXCEPT !.lastWriter = (writer[out.rec.key] = c)], FALSE)
     /\ localStore' = out.local
     /\ vkStorageCache' = out.cache
     /\ localWriter' = writer
     /\ recent' = [recent EXCEPT ![out.rec.key] = recentAfter(c, out.rec)]
     /\ lastRemove' = [lastRemove EXCEPT ![out.rec.key] = lastRemoveAfter(c, out.rec)]
     /\ removed' = IF out.rec.kind = "setItem"
                   THEN [removed EXCEPT ![out.rec.key] = FALSE]
                   ELSE IF /\ out.rec.kind = "removeItem" /\ out.rec.wroteLocal
                           /\ IsSettled(out.rec) /\ alone
                   THEN [removed EXCEPT ![out.rec.key] = TRUE]
                   ELSE removed

\* gameStorage.getItem(k)
GetItem(k) ==
  /\ nCalls < MaxCalls
  /\ \E f \in FaultsOf("getItem") :
       Publish(nCalls + 1,
               getStart([NewCall("getItem", WindowWrapper, k, NULL)
                           EXCEPT !.afterRemove = removed[k]],
                        localStore, vkStorageCache, f))
  /\ nCalls' = nCalls + 1
  /\ UNCHANGED <<envVars, saverVars, startVars, adsVars, autoInitPending, initialized, remoteStore, lastSet>>

\* gameStorage.setItem(k, v)
SetItem(k, v) ==
  /\ nCalls < MaxCalls
  /\ \E f \in FaultsOf("setItem") :
       LET out == setStart(NewCall("setItem", WindowWrapper, k, v),
                           localStore, vkStorageCache, f)
       IN /\ Publish(nCalls + 1, out)
          /\ lastSet' = IF out.rec.wroteLocal THEN [lastSet EXCEPT ![k] = v]
                        ELSE lastSet
  /\ nCalls' = nCalls + 1
  /\ UNCHANGED <<envVars, saverVars, startVars, adsVars, autoInitPending, initialized, remoteStore>>

\* gameStorage.removeItem(k)
RemoveItem(k) ==
  /\ nCalls < MaxCalls
  /\ \E f \in FaultsOf("removeItem") :
       Publish(nCalls + 1, rmStart(NewCall("removeItem", WindowWrapper, k, NULL),
                                   localStore, vkStorageCache, f))
  /\ nCalls' = nCalls + 1
  /\ UNCHANGED <<envVars, saverVars, startVars, adsVars, autoInitPending, initialized, remoteStore, lastSet>>

\* The auto-initialize blocks chain on the promise of init():
\*   .then(function(success) { if (success) window.VKBridgeWrapper.initAds(); })
\* The callback of block i is due once the init() call in its slot has
\* resolved with true.
thenAfter(c, rec) ==
  IF c > MaxCalls /\ rec.kind = "init" /\ IsSettled(rec) /\ rec.result = JTRUE
  THEN thenPending \cup {c - MaxCalls}
  ELSE thenPending

\* A wrapper function that returned without suspending settles its direct call.
WrapperStarted(w) ==
  IF w.wpc = "returned"
  THEN Settled(w, "resolved", IF w.fn = "init" THEN w.initResult ELSE FailValue(w.fn),
               localStore, vkStorageCache)
  ELSE w

\* The auto-initialize block i of vk-iframe-fix.js runs init(): immediately on
\* the object just created when the document is already loaded, otherwise
\* from a DOMContentLoaded handler on whatever window.VKBridgeWrapper is then.
AutoInitRuns(i, ads) ==
  /\ i \in autoInitPending
  /\ \A j \in autoInitPending : i <= j
  /\ LET obj == IF readyState = "complete" THEN i ELSE WindowWrapper
         rec == WrapperStarted(initEnter(NewCall("init", obj, NULL, NULL)))
     IN /\ StoreCall(AutoSlot(i), rec, rec.initResult # "none")
        /\ thenPending' = IF ads THEN thenAfter(AutoSlot(i), rec) ELSE thenPending
  /\ autoInitPending' = autoInitPending \ {i}
  /\ UNCHANGED <<envVars, saverVars, startVars, adsInitialized, initialized, localStore, remoteStore, vkStorageCache,
                 nCalls, lastSet, localWriter, removed, recent,
                 lastRemove>>

\* The auto-initialize block with its then-callback left out (the storage
\* functions do not depend on advertising), and with it.
AutoInit(i) == AutoInitRuns(i, FALSE)

AutoInitAds(i) == AutoInitRuns(i, TRUE)

\* window.VKBridgeWrapper.init() called by another script.
CallInit ==
  /\ wrapperPresent
  /\ nCalls < MaxWrapperCalls /\ nCalls < MaxCalls
  /\ LET rec == WrapperStarted(initEnter(NewCall("init", WindowWrapper, NULL, NULL)))
     IN StoreCall(nCalls + 1, rec, rec.initResult # "none")
  /\ nCalls' = nCalls + 1
  /\ UNCHANGED <<envVars, saverVars, startVars, adsVars, autoInitPending, initialized, localStore, remoteStore,
                 vkStorageCache, lastSet, localWriter, removed, recent,
                 lastRemove>>

\* window.VKBridgeWrapper.storageGet(k) called by another script.
CallStorageGet(k) ==
  /\ wrapperPresent
  /\ nCalls < MaxWrapperCalls /\ nCalls < MaxCalls
  /\ LET rec == WrapperStarted(storageEnter(NewCall("storageGet", WindowWrapper, k, NULL),
                                            "storageGet", "none", NULL))
     IN StoreCall(nCalls + 1, rec, rec.initResult # "none")
  /\ nCalls' = nCalls + 1
  /\ UNCHANGED <<envVars, saverVars, startVars, adsVars, autoInitPending, initialized, localStore, remoteStore,
                 vkStorageCache, lastSet, localWriter, removed, recent,
                 lastRemove>>

\* window.VKBridgeWrapper.storageSet(k, v) called by another script.
CallStorageSet(k, v) ==
  /\ wrapperPresent
  /\ nCalls < MaxWrapperCalls /\ nCalls < MaxCalls
  /\ LET rec == WrapperStarted(storageEnter(NewCall("storageSet", WindowWrapper, k, v),
                                            "storageSet", "none", v))
     IN StoreCall(nCalls + 1, rec, rec.initResult # "none")
  /\ nCalls' = nCalls + 1
  /\ UNCHANGED <<envVars, saverVars, startVars, adsVars, autoInitPending, initialized, localStore, remoteStore,
                 vkStorageCache, lastSet, localWriter, removed, recent,
                 lastRemove>>

\* window.VKBridgeWrapper.storageGetMultiple(keys) called by another script.
CallStorageGetMultiple(keys) ==
  /\ wrapperPresent
  /\ nCalls < MaxWrapperCalls /\ nCalls < MaxCalls
  /\ LET rec == WrapperStarted(storageEnter([NewCall("storageGetMultiple", WindowWrapper,
                                                     NULL, NULL) EXCEPT !.keys = keys],
                                            "storageGetMultiple", "multiple", NULL))
     IN StoreCall(nCalls + 1, rec, rec.initResult # "none")
  /\ nCalls' = nCalls + 1
  /\ UNCHANGED <<envVars, saverVars, startVars, adsVars, autoInitPending, initialized, localStore, remoteStore,
                 vkStorageCache, lastSet, localWriter, removed, recent,
                 lastRemove>>

\* The items with which the platform answers VKWebAppStorageGet for the keys
\* requested.
platformItems(keys) ==
  [k \in Keys |-> IF k \in keys THEN remoteStore[k] ELSE UNDEFINED]

\* The platform performs the storage request call c waits on:
\* VKWebAppStorageGet reads the entry, VKWebAppStorageSet writes it; the answer
\* travels back separately. Requests are performed in any order, and a request
\* that is never performed is one that is rejected or never answered.
PlatformHandle(c) ==
  /\ calls[c].status = "running"
  /\ calls[c].wpc = "send"
  /\ calls[c].resp = "none"
  /\ calls[c].fn \notin AdsFns
  /\ LET rec == calls[c]
         m == Request(rec)
     IN /\ calls' = [calls EXCEPT ![c] =
                       [rec EXCEPT !.resp = "ok",
                                   !.respValue = IF rec.fn = "storageGet"
                                                 THEN remoteStore[rec.key] ELSE NULL,
                                   !.respMap = IF rec.fn = "storageGetMultiple"
                                               THEN platformItems(rec.keys)
                                               ELSE NoItems]]
        /\ remoteStore' = IF m = "VKWebAppStorageSet"
                          THEN [remoteStore EXCEPT ![rec.key] = rec.reqValue]
                          ELSE remoteStore
  /\ UNCHANGED <<envVars, saverVars, startVars, adsVars, autoInitPending, initialized, localStore, vkStorageCache,
                 nCalls, last, initResults, sent, lastSet, localWriter, removed, recent,
                 lastRemove>>

\* Synchronous part of initAds / showInterstitialAd / showRewardAd: initAds
\* returns true at once when this.adsInitialized is set; otherwise all three
\* go through the same steps as the storage functions.
adsEnter(rec, fn) ==
  IF fn = "initAds" /\ adsInitialized[rec.obj]
  THEN Settled([rec EXCEPT !.fn = fn], "resolved", JTRUE, localStore, vkStorageCache)
  ELSE WrapperStarted(storageEnter(rec, fn, "none", NULL))

\* The then-callback of auto-initialize block i runs
\* window.VKBridgeWrapper.initAds().
AutoInitThen(i) ==
  /\ i \in thenPending
  /\ calls[AutoSlot(i)].status = "done"
  /\ LET rec == adsEnter(NewCall("initAds", WindowWrapper, NULL, NULL), "initAds")
     IN StoreCall(AutoSlot(i), rec, rec.initResult # "none")
  /\ thenPending' = thenPending \ {i}
  /\ UNCHANGED <<envVars, saverVars, startVars, adsInitialized, autoInitPending, initialized, localStore,
                 remoteStore, vkStorageCache, nCalls, lastSet, localWriter, removed,
                 recent, lastRemove>>

\* window.VKBridgeWrapper.initAds(), showInterstitialAd() or showRewardAd()
\* called by another script.
CallAds(fn) ==
  /\ wrapperPresent
  /\ nCalls < MaxWrapperCalls /\ nCalls < MaxCalls
  /\ LET rec == adsEnter(NewCall(fn, WindowWrapper, NULL, NULL), fn)
     IN StoreCall(nCalls + 1, rec, rec.initResult # "none")
  /\ nCalls' = nCalls + 1
  /\ UNCHANGED <<envVars, saverVars, startVars, adsVars, autoInitPending, initialized, localStore,
                 remoteStore, vkStorageCache, lastSet, localWriter, removed, recent,
                 lastRemove>>

\* The platform answers VKWebAppCheckNativeAds or VKWebAppShowNativeAds of
\* call c with { result: true } or { result: false }; a request it does not
\* answer this way is rejected.
PlatformAds(c) ==
  /\ calls[c].status = "running"
  /\ calls[c].wpc = "send"
  /\ calls[c].resp = "none"
  /\ calls[c].fn \in AdsFns
  /\ \E r \in {JTRUE, JFALSE} :
       calls' = [calls EXCEPT ![c] = [calls[c] EXCEPT !.resp = "ok", !.respValue = r]]
  /\ UNCHANGED <<envVars, saverVars, startVars, adsVars, autoInitPending, initialized, localStore,
                 remoteStore, vkStorageCache, nCalls, last, initResults, sent, lastSet,
                 localWriter, removed, recent, lastRemove>>

\* The answer to VKWebAppInit (resolved or rejected) reaches call c: init()
\* sets the flag on success and returns; storageGet/storageSet then test
\* this.initialized and either send their storage request or give up.
\* Both auto-initialize blocks run in one task (the evaluation of the script,
\* or the dispatch of DOMContentLoaded), before any answer can be handled.
DeliverInitTo(c, ads) ==
  /\ calls[c].status = "running"
  /\ calls[c].wpc = "init"
  /\ autoInitPending = {}
  /\ \E ok \in BOOLEAN :
       LET answered == [calls[c] EXCEPT !.resp = IF ok THEN "ok" ELSE "fail"]
           rec == [answered EXCEPT !.initResult = initReturn(answered)]
           flag == initFlagAfter(answered)
           next == IF rec.fn = "init"
                   THEN Settled(rec, "resolved", rec.initResult, localStore, vkStorageCache)
                   ELSE IF flag[rec.obj]
                   THEN [rec EXCEPT !.wpc = "send", !.resp = "none", !.respValue = NULL]
                   ELSE Settled(rec, "resolved", FailValue(rec.fn), localStore, vkStorageCache)
       IN /\ initialized' = flag
          /\ StoreCall(c, next, TRUE)
          /\ thenPending' = IF ads THEN thenAfter(c, next) ELSE thenPending
  /\ UNCHANGED <<envVars, saverVars, startVars, adsInitialized, autoInitPending, localStore, remoteStore, vkStorageCache,
                 nCalls, lastSet, localWriter, removed, recent,
                 lastRemove>>

\* The answer with the then-callback of auto-initialize left out, and with it.
DeliverInit(c) == DeliverInitTo(c, FALSE)

DeliverInitAds(c) == DeliverInitTo(c, TRUE)

\* Variant: answers are handed on in the order in which the calls were made.
canResumeInOrder(c) ==
  /\ calls[c].status = "running"
  /\ calls[c].wpc = "send"
  /\ \A d \in CallIds : d < c => calls[d].status # "running"

\* A call suspended in await vkBridge.send(...) of a storage request resumes
\* when that request settles; it holds no reference to any other call.
canResume(c) ==
  /\ calls[c].status = "running"
  /\ calls[c].wpc = "send"

\* The answer to a storage request reaches call c, the platform's result if it
\* performed the request and a rejection otherwise: the wrapper function
\* returns and its caller resumes up to its next await or its end.
DeliverStorage(c) ==
  /\ canResume(c)
  /\ LET rec == IF calls[c].resp = "none" THEN [calls[c] EXCEPT !.resp = "fail"]
                ELSE calls[c]
     IN /\ \E f \in FaultsOf(rec.kind) :
             LET out == bridgeResume(rec, storageReturn(rec), localStore, vkStorageCache, f)
             IN IF rec.key \in Keys
                THEN Publish(c, out)
                ELSE /\ StoreCall(c, out.rec, FALSE)
                     /\ UNCHANGED <<localStore, vkStorageCache, localWriter, removed,
                                    recent, lastRemove>>
        /\ adsInitialized' = adsFlagAfter(rec)
  /\ UNCHANGED <<envVars, saverVars, startVars, thenPending, autoInitPending, initialized, remoteStore,
                 nCalls, lastSet>>

\* ------------------------------------------------------ start of the scripts
\* Variant: the loop runs once more.
pollAgainOneMore(att) == ~initialized[WindowWrapper] /\ att <= maxAttempts

\* initialize(), the loop condition:
\*   while (!window.VKBridgeWrapper.initialized && attempts < maxAttempts)
pollAgain(att) == ~initialized[WindowWrapper] /\ att < maxAttempts

\* initialize() after the loop: which of the two messages it logs before it
\* goes on to set up its watchers.
pollExit == IF initialized[WindowWrapper] THEN "ready" ELSE "timeout"

\* initialize() of script s has gone on to install its watchers.
Started(s) == startPc[s] \in {"ready", "timeout", "absent"}

\* initialize() of script s runs (once: at load or on DOMContentLoaded) up to
\* its first await: without a wrapper it goes straight on; with one it sleeps
\* 100 ms as long as the loop condition holds.
Initialize(s) ==
  /\ startPc[s] = "idle"
  /\ startPc' = [startPc EXCEPT ![s] =
                   IF ~wrapperPresent THEN "absent"
                   ELSE IF pollAgain(0) THEN "waiting" ELSE pollExit]
  /\ UNCHANGED <<envVars, saverVars, adsVars, loadVars, attempts, autoInitPending, initialized, localStore,
                 remoteStore, vkStorageCache, calls, nCalls, last, initResults,
                 sent, lastSet, localWriter, removed, recent,
                 lastRemove>>

\* The 100 ms timer of script s fires: attempts++, then the loop condition is
\* tested again. The counter is local to the loop and gone once it is left.
TimerFires(s) ==
  /\ startPc[s] = "waiting"
  /\ LET att == attempts[s] + 1
     IN IF pollAgain(att)
        THEN /\ attempts' = [attempts EXCEPT ![s] = att]
             /\ UNCHANGED startPc
        ELSE /\ attempts' = [attempts EXCEPT ![s] = 0]
             /\ startPc' = [startPc EXCEPT ![s] = pollExit]
  /\ UNCHANGED <<envVars, saverVars, adsVars, loadVars, autoInitPending, initialized, localStore,
                 remoteStore, vkStorageCache, calls, nCalls, last, initResults,
                 sent, lastSet, localWriter, removed, recent,
                 lastRemove>>

\* gameStorage.getItem(k) called once the scripts have started.
GetItemStarted(k) == (\A s \in Scripts : Started(s)) /\ GetItem(k)

Next ==
  \/ \E k \in Keys : GetItem(k)
  \/ \E k \in Keys, v \in Values : SetItem(k, v)
  \/ \E k \in Keys : RemoveItem(k)
  \/ \E i \in {1, 2} : AutoInit(i)
  \/ \E c \in CallIds : PlatformHandle(c)
  \/ \E c \in CallIds : DeliverInit(c)
  \/ \E c \in CallIds : DeliverStorage(c)

Spec == Init /\ [][Next]_vars

\* The wrapper used directly and by the auto-initialisation.
NextWrapper ==
  \/ \E i \in {1, 2} : AutoInit(i)
  \/ CallInit
  \/ \E k \in Keys : CallStorageGet(k)
  \/ \E k \in Keys, v \in Values : CallStorageSet(k, v)
  \/ \E keys \in SUBSET Keys : CallStorageGetMultiple(keys)
  \/ \E c \in CallIds : PlatformHandle(c)
  \/ \E c \in CallIds : DeliverInit(c)
  \/ \E c \in CallIds : DeliverStorage(c)

SpecWrapper == Init /\ [][NextWrapper]_vars

\* The wrapper with its advertising functions and the then-callbacks of the
\* auto-initialisation, next to direct calls of the storage functions. What
\* the stores hold plays no part in when a request is sent: they start empty.
InitAds ==
  /\ Init
  /\ localStore = [k \in Keys |-> NULL]
  /\ remoteStore = [k \in Keys |-> NULL]

NextAds ==
  \/ \E i \in {1, 2} : AutoInitAds(i)
  \/ \E i \in {1, 2} : AutoInitThen(i)
  \/ \E fn \in AdsFns : CallAds(fn)
  \/ \E k \in Keys : CallStorageGet(k)
  \/ \E k \in Keys : CallStorageSet(k, "a")
  \/ \E c \in CallIds : PlatformHandle(c)
  \/ \E c \in CallIds : PlatformAds(c)
  \/ \E c \in CallIds : DeliverInitAds(c)
  \/ \E c \in CallIds : DeliverStorage(c)

SpecAds == InitAds /\ [][NextAds]_vars

\* The start of the page: the handshake, the scripts waiting for it, and reads
\* through the loader after it has started.
NextStartup ==
  \/ \E i \in {1, 2} : AutoInit(i)
  \/ \E c \in CallIds : DeliverInit(c)
  \/ \E s \in Scripts : Initialize(s)
  \/ \E s \in Scripts : TimerFires(s)
  \/ \E k \in Keys : GetItemStarted(k)
  \/ \E c \in CallIds : PlatformHandle(c)
  \/ \E c \in CallIds : DeliverStorage(c)

SpecStartup == Init /\ [][NextStartup]_vars

\* initialize() is called when the script loads or on DOMContentLoaded, and
\* the browser fires every timer that was set.
SpecStartupFair ==
  /\ SpecStartup
  /\ \A s \in Scripts : WF_vars(Initialize(s)) /\ WF_vars(TimerFires(s))

\* The handshake is over and has succeeded.
HandshakeDone ==
  /\ Ready
  /\ autoInitPending = {}
  /\ \A c \in CallIds : calls[c].wpc # "init"

\* The answer to the storage request of any call but the first arrives.
DeliverLater(c) == c # 1 /\ DeliverStorage(c)

\* The loader used after a successful handshake, when the request that the
\* first call is waiting on is never answered.
NextPending ==
  \/ \E i \in {1, 2} : AutoInit(i)
  \/ \E c \in CallIds : DeliverInit(c)
  \/ \E k \in Keys : HandshakeDone /\ GetItem(k)
  \/ \E k \in Keys, v \in Values : HandshakeDone /\ SetItem(k, v)
  \/ \E k \in Keys : HandshakeDone /\ RemoveItem(k)
  \/ \E c \in CallIds : PlatformHandle(c)
  \/ \E c \in CallIds : DeliverLater(c)

SpecPending == Init /\ [][NextPending]_vars

TypeOK ==
  /\ nCalls \in 0..MaxCalls
  /\ \A c \in 1..MaxCalls : (c > nCalls) = (calls[c].status = "free")
  /\ \A i \in {1, 2} : (i \in autoInitPending) => calls[AutoSlot(i)].status = "free"
  /\ \A k \in Keys : localStore[k] \in Values \cup {NULL}
  /\ \A k \in Keys : remoteStore[k] \in Values \cup {NULL}
  /\ \A k \in Keys : vkStorageCache[k] \in Values \cup {UNDEFINED}
  /\ \A s \in Scripts : attempts[s] \in 0..maxAttempts

\* ------------------------------------------------------------------ claims
\* JavaScript truthiness of a settled value.
Truthy(x) == x \notin {UNDEFINED, NULL, JFALSE, ""}

InFlight(k) == \E c \in CallIds : calls[c].status = "running" /\ calls[c].key = k

C2_LocalCopyNeverLost ==
  \A k \in Keys :
    (~InFlight(k) /\ lastSet[k] # UNDEFINED /\ localStore[k] # NULL)
      => localStore[k] = lastSet[k]

C4_LocalFallback ==
  (last.kind = "getItem" /\ last.remote \in {"skipped", "failed", "empty"}
     /\ last.localValue # NULL)
    => (last.status = "resolved" /\ last.result = last.localValue)

\* A getItem whose remote read failed returned the local value.
C4_Witness ==
  /\ last.kind = "getItem" /\ last.remote = "failed"
  /\ last.localValue \in Values
  /\ last.result = last.localValue

\* C5: when removeItem(k) resolves, local storage has no value for k, and a
\* getItem(k) issued after it with no setItem in between returns null
\* (local storage operations not throwing).
C5_RemoveThenGet ==
  /\ (last.kind = "removeItem" /\ last.wroteLocal /\ last.lastWriter)
       => last.resLocal = NULL
  /\ (last.kind = "getItem" /\ last.afterRemove /\ ~last.localThrew)
       => (last.status = "resolved" /\ last.result = NULL)

\* C6: when getItem(k) finds no value in the remote backend (not ready, failed
\* read, null or '') and none in local storage, it resolves to null and has
\* written nothing to local storage, to the cache or to the remote backend.
C6_AbsentAbsent ==
  (last.kind = "getItem" /\ last.remote \in {"skipped", "failed", "empty"}
     /\ ~last.localThrew /\ last.localValue = NULL)
    => /\ last.status = "resolved"
       /\ last.result = NULL
       /\ last.resLocal = NULL
       /\ ~last.wroteLocal /\ ~last.wroteCache /\ ~last.wroteRemote

\* A getItem found the remote entry empty and no local entry.
C6_Witness ==
  /\ last.kind = "getItem" /\ last.remote = "empty"
  /\ ~last.localThrew /\ last.localValue = NULL
  /\ last.result = NULL

\* C7: the promise of getItem never rejects, whatever fails remotely or in
\* local storage.
C7_GetNeverRejects == last.kind = "getItem" => last.status = "resolved"

\* C8: the promises of setItem and removeItem never reject, whatever fails
\* remotely or in local storage.
C8_SetRemoveNeverReject ==
  last.kind \in {"setItem", "removeItem"} => last.status = "resolved"

\* A setItem whose local write threw has settled.
C8_Witness == last.kind = "setItem" /\ last.localThrew /\ last.status = "resolved"

\* C9: setItem resolves to a truthy value exactly when its local write
\* succeeded.
C9_SetReportsLocalSuccess ==
  last.kind = "setItem" => (Truthy(last.result) <=> last.wroteLocal)

\* C10: at most one VKWebAppInit request is ever sent, and all callers of
\* init() get the same result.
C10_IdempotentInit ==
  /\ sent["VKWebAppInit"] <= 1
  /\ Cardinality(initResults) <= 1

\* A step taken after a handshake has failed sends no VKWebAppInit request.
NoRetryStep ==
  JFALSE \in initResults => sent'["VKWebAppInit"] = sent["VKWebAppInit"]

\* C11: once a handshake has failed (a VKWebAppInit request was rejected, or
\* init() found vkBridge undefined), no further VKWebAppInit request is sent,
\* whatever is called afterwards.
C11_NoHandshakeRetry == [][NoRetryStep]_vars

\* C12: initialize() sleeps at most maxAttempts times and then goes on to
\* install its watchers, whether or not the wrapper ever becomes ready; and a
\* getItem issued after that never waits on the handshake: issued while the
\* wrapper is not ready it settles at once, with the local value if there is
\* one.
C12_BoundedStartup ==
  /\ [](\A s \in Scripts : startPc[s] = "waiting" => attempts[s] < maxAttempts)
  /\ \A s \in Scripts : <>Started(s)
  /\ [](\A c \in CallIds :
          (calls[c].kind = "getItem" /\ calls[c].status = "running")
            => (calls[c].wpc # "init" /\ calls[c].remote # "skipped"))
  /\ []((last.kind = "getItem" /\ last.remote = "skipped"
           /\ last.localValue # NULL)
          => (last.status = "resolved" /\ last.result = last.localValue))

\* The loader gave up waiting for a wrapper that never became ready, and a
\* getItem issued afterwards returned the local value.
C12_Witness ==
  /\ startPc["loader"] = "timeout" /\ ~Ready
  /\ last.kind = "getItem" /\ last.remote = "skipped"
  /\ last.localValue = "a" /\ last.result = "a"

\* A step in which getItem, setItem or removeItem is called while
\* window.VKBridgeWrapper is absent or its flag is false: nothing is sent to
\* the platform, and the call settles in that step without a remote attempt.
GatedStep ==
  (nCalls' = nCalls + 1 /\ ~(wrapperPresent /\ initialized[WindowWrapper]))
    => /\ sent' = sent
       /\ remoteStore' = remoteStore
       /\ calls'[nCalls'].status = "done"
       /\ last'.kind \in {"getItem", "setItem", "removeItem"}
       /\ ~last'.wroteRemote

\* C13: getItem, setItem and removeItem called while the wrapper is absent or
\* not initialized send no request to the platform (neither a storage request
\* nor a handshake) and act on local storage only.
C13_NotReadyGating == [][GatedStep]_vars

\* A setItem called with the wrapper present but not initialized has written
\* local storage and nothing else.
C13_Witness ==
  /\ wrapperPresent /\ vkBridgeDefined /\ ~initialized[WindowWrapper]
  /\ last.kind = "setItem" /\ last.remote = "skipped"
  /\ last.wroteLocal /\ ~last.wroteRemote
  /\ sent["VKWebAppStorageSet"] = 0

\* C14 as stated: once nothing is in flight on k, if the most recent
\* setItem(k, v) was issued with the wrapper ready and its remote write
\* succeeded, the remote value of k is v.
C14_EventualRemote ==
  \A k \in Keys :
    (~InFlight(k) /\ recent[k].state = "ok")
      => remoteStore[k] = recent[k].value

\* C14 amended: the same, provided no other call on k was in flight while
\* that setItem was, and no removeItem(k) was issued after it.
C14_EventualRemoteAmended ==
  \A k \in Keys :
    (~InFlight(k) /\ recent[k].state = "ok" /\ recent[k].alone
       /\ ~recent[k].removedAfter)
      => remoteStore[k] = recent[k].value

\* A setItem replicated its value over a different remote one, and a getItem
\* issued after it has completed.
C14_Witness ==
  /\ ~InFlight("k1") /\ recent["k1"].state = "ok" /\ recent["k1"].alone
  /\ recent["k1"].value = "a" /\ remoteStore["k1"] = "a"
  /\ last.kind = "getItem" /\ last.remote = "value"

LoaderKinds == {"getItem", "setItem", "removeItem"}

\* The record of the call issued by the step, settled or suspended.
Issued == IF calls'[nCalls'].status = "done" THEN last' ELSE calls'[nCalls']

\* A step that issues a loader call performs the call's local step in that
\* step, whatever requests of other calls are pending, and leaves the call
\* settled or waiting on a storage request of its own.
IssueStep ==
  nCalls' = nCalls + 1
    => /\ Issued.kind \in LoaderKinds
       /\ IsSettled(Issued) \/ (Issued.status = "running" /\ Issued.wpc = "send")
       /\ Issued.kind \in {"setItem", "removeItem"}
            => (Issued.wroteLocal \/ Issued.localThrew)
       /\ (Issued.kind = "setItem" /\ Issued.wroteLocal)
            => localStore'[Issued.key] = Issued.value
       /\ (Issued.kind = "removeItem" /\ Issued.wroteLocal)
            => localStore'[Issued.key] = NULL
       /\ \A d \in CallIds \ {nCalls'} : calls'[d] = calls[d]

\* How far a call is from settling: the storage requests it may still have
\* to wait for (getItem reads and may then write up), counting a request
\* the platform has not performed yet twice.
Rank(rec) ==
  IF rec.status # "running" THEN 0
  ELSE (IF rec.bpc = "get:read" THEN 3 ELSE 1) + (IF rec.resp = "none" THEN 1 ELSE 0)

\* Every step of a call in flight brings it nearer to settling.
ProgressStep ==
  \A c \in 1..MaxCalls :
    (calls[c].status = "running" /\ calls'[c] # calls[c])
      => Rank(calls'[c]) < Rank(calls[c])

\* Every call in flight that was made after the first can be resumed by the
\* answer to its own request, whatever the first call is waiting for.
LaterCallsResumable ==
  \A c \in 2..MaxCalls : calls[c].status = "running" => canResume(c)

\* C16: a request of one call that never resolves does not hold up the calls
\* made after it: their local step is performed when they are made, and they
\* settle once their own remote requests settle.
C16_CallsIndependent ==
  []LaterCallsResumable /\ [][IssueStep /\ ProgressStep]_vars

\* A getItem is still waiting for its answer while a setItem issued after it
\* has written local storage, replicated its value and resolved.
C16_Witness ==
  /\ calls[1].status = "running" /\ calls[1].kind = "getItem"
  /\ calls[1].resp = "none"
  /\ last.kind = "setItem" /\ last.status = "resolved"
  /\ last.wroteLocal /\ last.remote = "ok"
  /\ recent["k1"].call = 2

\* The platform performs the write that a getItem sent up: the remote entry
\* of the key becomes the local value the call had read.
SyncStep ==
  \A c \in CallIds :
    (calls[c].bpc = "get:sync" /\ calls[c].resp = "none" /\ calls'[c].resp = "ok")
      => remoteStore'[calls[c].key] = calls[c].localValue

\* A getItem whose remote read gave nothing (null, '' or a failure) and whose
\* local read gave v has called storageSet once, and has returned v whether
\* that write succeeded or not.
SyncsOnceAndReturnsLocal ==
  (last.kind = "getItem" /\ last.remote \in {"empty", "failed"}
     /\ last.localValue # NULL)
    => /\ last.status = "resolved"
       /\ last.result = last.localValue
       /\ last.writes = 1
       /\ last.sync \in {"ok", "failed"}

\* C17: with the wrapper ready, a remote read that gives null or empty and a
\* local value v, getItem issues exactly one remote write of (k, v) and
\* returns v; a write that succeeds leaves v as the remote value, one that
\* fails changes nothing of the result.
C17_UpwardSync == []SyncsOnceAndReturnsLocal /\ [][SyncStep]_vars

\* A getItem found the remote entry empty, wrote the local value up and
\* returned it.
C17_Witness ==
  /\ last.kind = "getItem" /\ last.remote = "empty" /\ last.sync = "ok"
  /\ last.localValue = "a" /\ last.result = "a" /\ last.writes = 1
  /\ remoteStore["k1"] = "a"

\* C18: once a removeItem(k) has resolved (localStorage.removeItem not
\* throwing) and nothing is in flight on k, no getItem(k) or setItem(k, .)
\* having been issued after the remove, the cache has no entry for k.
C18_RemoveClearsCache ==
  \A k \in Keys :
    (lastRemove[k].state = "done" /\ ~lastRemove[k].threw
       /\ ~lastRemove[k].later /\ ~InFlight(k))
      => vkStorageCache[k] = UNDEFINED

\* The step in which a setItem whose remote write failed settles.
FailedSetSettles ==
  \E c \in CallIds :
    /\ calls[c].status = "running" /\ calls[c].bpc = "set:write"
    /\ calls'[c].status # "running"
    /\ last'.kind = "setItem" /\ last'.remote = "failed"

\* Settling after a failed remote write changes neither local storage nor the
\* cache and sends nothing more.
FailedSetStep ==
  FailedSetSettles
    => /\ localStore' = localStore
       /\ vkStorageCache' = vkStorageCache
       /\ sent' = sent
       /\ last'.writes = 1

\* What a settled setItem records: after a failed remote write, one storageSet
\* call, no cache write, and the local value is still the written one unless
\* another call rewrote the entry; a cache write only after a successful
\* remote write, and then of the written value.
FailedSetRecord ==
  /\ (last.kind = "setItem" /\ last.remote = "failed")
       => /\ last.writes = 1 /\ last.wroteLocal /\ ~last.wroteCache
          /\ (last.lastWriter => last.resLocal = last.value)
  /\ (last.kind = "setItem" /\ last.wroteCache)
       => (last.remote = "ok" /\ last.resCache = last.value)

\* C19: when the remote write of setItem(k, v) fails, exactly one remote write
\* was attempted, the local value of k stays v, and the call leaves the cache
\* entry of k as it was; the call sets the cache to v only when the remote
\* write succeeded.
C19_FailedReplicationNoSideEffects ==
  []FailedSetRecord /\ [][FailedSetStep]_vars

\* A setItem has settled after a failed remote write, with its value in local
\* storage and the cache not holding it.
C19_Witness ==
  /\ last.kind = "setItem" /\ last.remote = "failed" /\ last.writes = 1
  /\ last.lastWriter /\ last.resLocal = last.value
  /\ last.resCache # last.value

\* The functions of VKBridgeWrapper, as kinds of direct calls.
WrapperKinds == {"init", "storageGet", "storageSet", "storageGetMultiple"}

\* The direct call in slot c settles in this step.
WrapperSettles(c) ==
  /\ calls[c].status \in {"free", "running"}
  /\ calls'[c].status = "done"
  /\ last'.kind \in WrapperKinds

\* The platform performed the storage request of call c, whose answer is now
\* handed on; in every other case the function gives up.
PlatformAnswered(c) ==
  calls[c].status = "running" /\ calls[c].wpc = "send" /\ calls[c].resp = "ok"

\* What a wrapper function settles with.
WrapperOutcome(c) ==
  /\ last'.status = "resolved"
  /\ last'.kind = "init" =>
       /\ last'.result \in {JTRUE, JFALSE}
       /\ (last'.result = JTRUE => initialized'[last'.obj])
       /\ (~initialized'[last'.obj] => last'.result = JFALSE)
  /\ last'.kind = "storageGet" =>
       last'.result = IF PlatformAnswered(c) THEN calls[c].respValue ELSE NULL
  /\ last'.kind = "storageSet" =>
       last'.result = IF PlatformAnswered(c) THEN JTRUE ELSE JFALSE
  /\ last'.kind = "storageGetMultiple" =>
       /\ last'.result = JOBJECT
       /\ last'.resultMap = IF PlatformAnswered(c) THEN calls[c].respMap ELSE NoItems
       /\ \A k \in Keys : last'.resultMap[k] # UNDEFINED => k \in last'.keys

NeverRejectsStep == \A c \in CallIds : WrapperSettles(c) => WrapperOutcome(c)

\* C20: init, storageGet, storageSet and storageGetMultiple always resolve,
\* whether the platform call succeeded, was rejected, or vkBridge is
\* undefined; on failure they return false, null, false and {}; storageGet
\* and storageGetMultiple return only what the platform reported.
C20_ClientNeverRejects == [][NeverRejectsStep]_vars

\* storageGetMultiple(['k1']) has resolved with {} after its request was sent
\* and rejected.
C20_Witness ==
  /\ last.kind = "storageGetMultiple" /\ last.status = "resolved"
  /\ last.keys = {"k1"}
  /\ last.result = JOBJECT /\ last.resultMap = NoItems
  /\ sent["VKWebAppStorageGet"] = 1

\* C22: a setItem(k, v) issued while another call on k was in flight (a
\* getItem awaiting its remote read), whose local write did not throw and
\* after which no further call was issued, leaves v in local storage once
\* every call on k has completed.
C22_ReadDoesNotClobberWrite ==
  \A k \in Keys :
    (/\ recent[k].call = nCalls /\ recent[k].call # 0
     /\ ~recent[k].alone
     /\ recent[k].state \in {"ok", "failed", "skipped"}
     /\ ~InFlight(k))
      => localStore[k] = recent[k].value

\* setupLocalStorageProxy, the getItem of the proxy, its synchronous result:
\*   const cached = vkStorageCache.get(key);
\*   if (cached !== undefined) return cached;
\*   ...; return originalLocalStorage.getItem(key);
proxyGetItem(local, cache, key) ==
  IF cache[key] # UNDEFINED THEN cache[key] ELSE local[key]

\* C23: once a setItem(k, v) whose local write did not throw has resolved,
\* no other call on k having been in flight with it or issued after it, and
\* v still in local storage, the getItem of the localStorage proxy returns v,
\* whether the remote write succeeded, failed or was skipped.
C23_CacheNotAuthoritative ==
  \A k \in Keys :
    (/\ recent[k].call = nCalls /\ recent[k].call # 0
     /\ recent[k].alone
     /\ recent[k].state \in {"ok", "failed", "skipped"}
     /\ ~InFlight(k)
     /\ localStore[k] = recent[k].value)
      => proxyGetItem(localStore, vkStorageCache, k) = recent[k].value

\* The requests that need the handshake.
GatedMethods == Methods \ {"VKWebAppInit"}

\* The record of call c after a step, settled or not.
After(c) == IF calls'[c].status = "done" THEN last' ELSE calls'[c]

\* The flag of object w rises only in a step in which a call on w that awaited
\* VKWebAppInit resumes with the request resolved (init() returns true).
FlagRisesOnHandshake(w) ==
  (initialized'[w] /\ ~initialized[w])
    => \E c \in CallIds :
         /\ calls[c].status = "running" /\ calls[c].wpc = "init" /\ calls[c].obj = w
         /\ calls'[c] # calls[c]
         /\ After(c).initResult = JTRUE

\* A request m is sent only by a call whose object has the flag set.
SentAfterHandshake(m) ==
  sent'[m] > sent[m]
    => \E c \in CallIds :
         /\ calls'[c] # calls[c]
         /\ calls'[c].status = "running" /\ Request(calls'[c]) = m
         /\ initialized'[calls'[c].obj]

HandshakeStep ==
  /\ \A w \in Wrappers : FlagRisesOnHandshake(w)
  /\ \A w \in Wrappers : initialized[w] => initialized'[w]
  /\ \A m \in GatedMethods : SentAfterHandshake(m)

\* C24: on each VKBridgeWrapper object, initialized is false at first, rises
\* only when a VKWebAppInit request of that object has resolved, never falls
\* back, and no storage or advertising request is sent by an object whose
\* flag is false.
C24_HandshakeFirst ==
  /\ \A w \in Wrappers : ~initialized[w]
  /\ [][HandshakeStep]_vars
  /\ [](\A m \in GatedMethods : sent[m] > 0 => \E w \in Wrappers : initialized[w])

\* A storage request and an advertising request have both been sent after the
\* handshake.
C24_Witness ==
  /\ initialized[WindowWrapper]
  /\ sent["VKWebAppCheckNativeAds"] > 0
  /\ sent["VKWebAppStorageGet"] > 0

\* ------------------------------------------------ The scraper functions alone
\* The values that a game property, or a state itself, takes in the inputs.
GameVals ==
  { Undef, Other("null"), Other("num"),
    Obj(0, 0, GroupsArray(<<GroupObj(FALSE, 2)>>)),
    Obj(UNDEF_N, 1, NoLevelGroups),
    Obj(UNDEF_N, UNDEF_N, NoLevelGroups),
    Str(1, 0, NoLevelGroups),
    Str(UNDEF_N, 0, NoLevelGroups) }

\* The parsed states of the inputs: null, a number, and objects with and
\* without a game property and an app property.
StateVals ==
  { StateVal(Other("null"), Undef, "undef", Undef),
    StateVal(Other("num"), Undef, "undef", Undef) }
  \cup { StateVal(Obj(UNDEF_N, UNDEF_N, NoLevelGroups), g, "undef", Undef) : g \in GameVals }
  \cup { StateVal(Obj(UNDEF_N, UNDEF_N, NoLevelGroups), Undef, k, Undef) : k \in {"null", "num"} }
  \cup { StateVal(Obj(UNDEF_N, UNDEF_N, NoLevelGroups), Undef, "obj", g) :
           g \in {Undef, Obj(1, 1, NoLevelGroups)} }
  \cup { StateVal(Obj(1, UNDEF_N, NoLevelGroups), Undef, "undef", Undef),
         StateVal(Obj(NULL_N, 0, NoLevelGroups), Undef, "undef", Undef) }

\* The entries of localStorage of the inputs.
EntryVals == {Absent, Empty, Malformed} \cup { Json(v) : v \in StateVals }

\* The entries of 'playerProgress' of the inputs.
SavedVals ==
  { Absent, Malformed,
    Json(StateVal(Other("null"), Undef, "undef", Undef)),
    Json(StateVal(Obj(UNDEF_N, 0, NoLevelGroups), Undef, "undef", Undef)),
    Json(StateVal(Obj(1, 0, NoLevelGroups), Undef, "undef", Undef)) }

\* The global stores of the inputs.
StoreVals ==
  { NoStore, StoreThrowing,
    Store(StateVal(Other("null"), Undef, "undef", Undef)),
    Store(StateVal(Obj(UNDEF_N, UNDEF_N, NoLevelGroups), Obj(1, 0, NoLevelGroups), "undef", Undef)),
    Store(StateVal(Obj(0, 1, NoLevelGroups), Undef, "undef", Undef)) }

\* What the inputs hold besides the entry of 'persist:root': the entry of
\* 'state', of 'playerProgress', the two single keys, the global store and
\* lastKnownProgress.
Rest(state, saved, level, group, store, known) ==
  [state |-> state, saved |-> saved, level |-> level, group |-> group,
   store |-> store, known |-> known]

RestVals ==
  { Rest(Absent, s, NULL_N, NULL_N, g, k) :
      s \in SavedVals, g \in StoreVals, k \in {NoProgress, Progress(0, 0, NoLevelGroups)} }
  \cup { Rest(Absent, s, n[1], n[2], NoStore, NoProgress) :
           s \in {Absent, Malformed}, n \in {<<0, NULL_N>>, <<NULL_N, 1>>} }
  \cup { Rest(Json(StateVal(Obj(1, 1, NoLevelGroups), Undef, "undef", Undef)),
               Malformed, NULL_N, NULL_N, StoreThrowing, NoProgress) }

\* The inputs of the scraper functions: what localStorage and the global
\* store hold and what lastKnownProgress is when they are called.
InitScraper ==
  /\ InitBridge
  /\ ~wrapperPresent
  /\ localStore = [k \in Keys |-> NULL]
  /\ \E e \in EntryVals, r \in RestVals :
       /\ ls = [entries |-> [k \in StateKeys |-> IF k = "persist:root" THEN e ELSE r.state],
                playerProgress |-> r.saved, currentLevel |-> r.level,
                currentLevelGroup |-> r.group, levelGroups |-> NoLevelGroups]
       /\ globalStore = r.store
       /\ lastKnownProgress = r.known
  /\ lastSavedLevel = NULL_N
  /\ lastSavedLevelGroup = NULL_N
  /\ saveInProgress = FALSE
  /\ saverStarted = FALSE
  /\ timers = NoTimers
  /\ saving = << >>
  /\ invoked = NoHandler
  /\ lastSave = NoSave
  /\ marker = "none"
  /\ scrape = NoScrape
  /\ nextSaved = NoProgress

bridgeVars == <<autoInitPending, initialized, localStore, remoteStore, vkStorageCache,
                calls, nCalls, last, initResults, sent, lastSet, localWriter, removed,
                recent, lastRemove>>

\* A call of extractProgressFromState().
ScrapeState ==
  /\ \E storageThrows \in BOOLEAN :
       LET r == extractProgressFromState(ls, globalStore, lastKnownProgress, storageThrows)
           t == fromStateTry(ls, globalStore, lastKnownProgress, storageThrows)
       IN /\ lastKnownProgress' = r.known
          /\ scrape' = Scraped("extractProgressFromState", r.threw, t.threw, r.p, NoNext)
  /\ UNCHANGED <<envVars, startVars, adsVars, bridgeVars, ls, globalStore, lastSavedLevel,
                 lastSavedLevelGroup, saveInProgress, saverStarted, timers, saving,
                 invoked, lastSave, marker, nextSaved>>

\* A call of extractProgressFromGlobals().
ScrapeGlobals ==
  /\ LET r == extractProgressFromGlobals(globalStore, lastKnownProgress)
         t == fromGlobalsTry(globalStore, lastKnownProgress)
     IN /\ lastKnownProgress' = r.known
        /\ scrape' = Scraped("extractProgressFromGlobals", r.threw, t.threw, r.p, NoNext)
  /\ UNCHANGED <<envVars, startVars, adsVars, bridgeVars, ls, globalStore, lastSavedLevel,
                 lastSavedLevelGroup, saveInProgress, saverStarted, timers, saving,
                 invoked, lastSave, marker, nextSaved>>

\* A call of calculateNextLevel(currentLevel, currentLevelGroup, levelGroups).
ScrapeNext(currentLevel, currentLevelGroup, levelGroups) ==
  /\ LET r == calculateNextLevel(currentLevel, currentLevelGroup, levelGroups)
         t == calculateNextLevelTry(currentLevel, currentLevelGroup, levelGroups)
     IN scrape' = Scraped("calculateNextLevel", r.threw, t.threw, NoProgress, r)
  /\ UNCHANGED <<envVars, startVars, adsVars, bridgeVars, ls, globalStore, lastSavedLevel,
                 lastSavedLevelGroup, saveInProgress, lastKnownProgress, saverStarted,
                 timers, saving, invoked, lastSave, marker, nextSaved>>

NextScraper ==
  \/ ScrapeState
  \/ ScrapeGlobals
  \/ \E l \in LevelVals, g \in LevelVals, lg \in LevelGroupsSet : ScrapeNext(l, g, lg)

SpecScraper == InitScraper /\ [][NextScraper]_vars

\* C21: extractProgressFromState, extractProgressFromGlobals and
\* calculateNextLevel never let an exception out: for every content of
\* localStorage and of the global store, malformed or partial, the call
\* returns, and it returns null whenever its try block threw.
C21_ScraperNeverThrows ==
  /\ ~scrape.threw
  /\ scrape.caught => (~scrape.p.some /\ ~scrape.next.found)

\* C21 witness: extractProgressFromState has returned null from its catch
\* block, localStorage having thrown while 'persist:root' holds text that is
\* no JSON.
C21_Witness ==
  /\ scrape.fn = "extractProgressFromState"
  /\ scrape.caught
  /\ ~scrape.threw
  /\ ls.entries["persist:root"] = Malformed

\* ------------------------------------------------- The saver's handlers
\* Bounds: pending callbacks of setTimeout, and savePlayerProgress
\* invocations that can be waiting for storageSet at once.
MaxTimers == 1
MaxSaves == 2

\* Another callback of setTimeout can be pending.
TimerFree(tm) == tm["setItem"] + tm["storage"] < MaxTimers

\* The game has one group of MaxLevel + 1 levels; it persists its position
\* (level, group), the level being undefined before one is chosen.
GameGroups == GroupsArray(<<GroupObj(FALSE, MaxLevel + 1)>>)
GamePositions == { <<l, 0>> : l \in Levels \cup {UNDEF_N} }

\* The game state is persisted under 'persist:root' with the game object as
\* an object (gameEntry also builds the form that redux-persist writes, with
\* the game object as JSON text).
GameShapes == {"obj"}

gameEntry(shape, l, g) ==
  Json(StateVal(Obj(UNDEF_N, UNDEF_N, NoLevelGroups),
                IF shape = "obj" THEN Obj(l, g, GameGroups) ELSE Str(l, g, GameGroups),
                "undef", Undef))

\* JSON.stringify(progress) as JSON.parse gives it back: undefined properties
\* are left out, so they are undefined again.
progressEntry(data) ==
  Json(StateVal(Obj(data.level, data.group, data.lg), Undef, "undef", Undef))

\* The setItem hook's "parse the incoming value immediately": what
\* lastKnownProgress is afterwards. An exception (no JSON, null, or a game
\* property that is an object and not JSON text) is ignored.
hookParse(e, known) ==
  IF e.c # "json" THEN known
  ELSE IF e.v.self.k \in {"null", "undef"} THEN known
  ELSE LET game == IF e.v.self.k = "obj" THEN e.v.game ELSE Undef
           cand == IF ~IsTruthy(game) THEN e.v.self
                   ELSE IF game.k = "str" THEN Obj(game.level, game.group, game.lg)
                   ELSE game
       IN IF IsTruthy(game) /\ game.k = "obj" THEN known
          ELSE IF hasLevelInfo(cand)
          THEN Progress(levelOf(cand), groupOf(cand), groupsOf(cand))
          ELSE known

\* Number(String(x || 0)) for a level or group number.
orZero(n) == IF n \in {UNDEF_N, NULL_N} THEN 0 ELSE n

\* localStorage.setItem may throw (quota): the write of 'playerProgress'.
LocalFaults == {"ok", "threw"}

\* The writes of the compatibility keys: all done, or the first setItem
\* threw.
CompatFaults == {"ok", "threw"}

compatWrite(st, data, fault) ==
  IF fault = "threw" THEN st
  ELSE [st EXCEPT !.currentLevel = orZero(data.level),
                  !.currentLevelGroup = orZero(data.group),
                  !.levelGroups = IF data.lg.arr THEN data.lg ELSE @]

\* Variant: no guard.
guardBlocksNever(inProgress) == FALSE

\* if (saveInProgress) return;
guardBlocks(inProgress) == inProgress

\* Variant: the guard is released only at the end of a save whose writes of
\* the compatibility keys worked.
guardAfterSaveUnlessThrew(compat) == compat = "threw"

\* finally { saveInProgress = false; }
guardAfterSave(compat) == FALSE

\* Variant: the remote write is attempted only after a local write that
\* worked.
remoteAttemptedAfterLocal(local, ready) == ready /\ local = "ok"

\* if (window.VKBridgeWrapper && window.VKBridgeWrapper.initialized), which
\* follows the try/catch of the local write.
remoteAttempted(local, ready) == ready

\* Variant: every detection is taken for a new level.
isNewLevelAlways(p, level, group) == TRUE

\* currentLevel !== lastSavedLevel || currentLevelGroup !== lastSavedLevelGroup
isNewLevel(p, level, group) == p.level # level \/ p.group # group

\* The handlers that await savePlayerProgress and set the markers afterwards.
NextKinds == {"next", "nextNull"}

\* The handlers that compare with the markers before they save.
DetectKinds == {"setItem", "dom", "storage"}

\* The markers when the invocation asked for by handler `by` has returned:
\* the Next-button handler then sets them to what it saved.
Markers(by, data, level, group, mk) ==
  IF by \in NextKinds
  THEN /\ lastSavedLevel' = data.level
       /\ lastSavedLevelGroup' = data.group
       /\ marker' = "next"
  ELSE /\ lastSavedLevel' = level
       /\ lastSavedLevelGroup' = group
       /\ marker' = mk

\* nextSaved after handler `by` has run: a Next-button save of the next level
\* that wrote data to 'playerProgress' sets it, the callback of a setItem
\* timer keeps it, and anything else that the page or the player does ends it.
nextSavedAfter(by, wrote, data) ==
  IF by = "next" /\ wrote THEN data
  ELSE IF by = "setItem" THEN nextSaved
  ELSE NoProgress

\* savePlayerProgress(data), called by handler `by` after it has set
\* lastKnownProgress to known, the timers to tm and the markers to
\* (level, group): up to its return, or to await storageSet.
Invoke(by, data, known, tm, level, group, mk) ==
  /\ invoked' = [by |-> by, called |-> TRUE, data |-> data]
  /\ IF guardBlocks(saveInProgress)
     THEN /\ lastSave' = [NoSave EXCEPT !.returned = TRUE, !.skipped = TRUE]
          /\ nextSaved' = nextSavedAfter(by, FALSE, data)
          /\ lastKnownProgress' = known
          /\ timers' = tm
          /\ Markers(by, data, level, group, mk)
          /\ UNCHANGED <<ls, saveInProgress, saving>>
     ELSE \E lf \in LocalFaults :
            LET hooked == lf = "ok" /\ saverStarted
                st1 == IF lf = "ok" THEN [ls EXCEPT !.playerProgress = progressEntry(data)]
                       ELSE ls
            IN /\ hooked => TimerFree(tm)
               /\ nextSaved' = nextSavedAfter(by, lf = "ok", data)
               /\ timers' = IF hooked THEN [tm EXCEPT !["setItem"] = @ + 1] ELSE tm
               /\ lastKnownProgress' = IF hooked THEN hookParse(progressEntry(data), data)
                                       ELSE data
               /\ IF remoteAttempted(lf, Ready)
                  THEN /\ Len(saving) < MaxSaves
                       /\ saving' = Append(saving, [by |-> by, data |-> data, local |-> lf,
                                                    steps |-> <<"local", "remote">>])
                       /\ saveInProgress' = TRUE
                       /\ ls' = st1
                       /\ lastSave' = NoSave
                       /\ lastSavedLevel' = level
                       /\ lastSavedLevelGroup' = group
                       /\ marker' = mk
                  ELSE \E cf \in CompatFaults :
                         /\ ls' = compatWrite(st1, data, cf)
                         /\ saveInProgress' = guardAfterSave(cf)
                         /\ lastSave' = [returned |-> TRUE, skipped |-> FALSE,
                                         ready |-> Ready, local |-> lf, remote |-> "none",
                                         compat |-> cf, steps |-> <<"local", "compat">>]
                         /\ Markers(by, data, level, group, mk)
                         /\ UNCHANGED saving

\* A handler that ends without calling savePlayerProgress, p being the
\* progress it had extracted.
NoInvoke(by, p, known, tm) ==
  /\ invoked' = [by |-> by, called |-> FALSE, data |-> p]
  /\ lastSave' = NoSave
  /\ lastKnownProgress' = known
  /\ timers' = tm
  /\ nextSaved' = nextSavedAfter(by, FALSE, p)
  /\ UNCHANGED <<ls, saveInProgress, saving, lastSavedLevel, lastSavedLevelGroup, marker>>

\* What the saver leaves alone.
otherVars == <<envVars, startVars, adsVars, bridgeVars, globalStore, scrape>>

\* The body shared by the three detection paths: extract, compare with the
\* markers, set the markers, save. The storage listener does not test
\* progress.currentLevel !== undefined.
Detected(by, tm, testsLevel) ==
  \E r \in {extractProgressFromState(ls, globalStore, lastKnownProgress, FALSE)} :
     IF /\ r.p.some
        /\ testsLevel => r.p.level # UNDEF_N
        /\ isNewLevel(r.p, lastSavedLevel, lastSavedLevelGroup)
     THEN Invoke(by, r.p, r.known, tm, r.p.level, r.p.group, "detect")
     ELSE NoInvoke(by, r.p, r.known, tm)

\* The wait of initialize() for the wrapper is over: there is no wrapper, or
\* its handshake has settled (an answer that comes after the 50 attempts is
\* taken for no answer).
WaitOver ==
  \/ ~wrapperPresent
  \/ /\ autoInitPending = {}
     /\ \A c \in CallIds : ~(calls[c].status = "running" /\ calls[c].wpc = "init")

\* initialize(), from the end of its wait for the wrapper: it installs the
\* hook and the listeners and takes the initial progress for saved.
SaverInitialize ==
  /\ ~saverStarted
  /\ WaitOver
  /\ saverStarted' = TRUE
  /\ \E r \in {extractProgressFromState(ls, globalStore, lastKnownProgress, FALSE)} :
        /\ lastKnownProgress' = r.known
        /\ IF r.p.some
           THEN /\ lastSavedLevel' = r.p.level
                /\ lastSavedLevelGroup' = r.p.group
                /\ marker' = "init"
           ELSE UNCHANGED <<lastSavedLevel, lastSavedLevelGroup, marker>>
  /\ invoked' = [NoHandler EXCEPT !.by = "initialize"]
  /\ lastSave' = NoSave
  /\ UNCHANGED <<otherVars, ls, saveInProgress, timers, saving, nextSaved>>

\* The game persists its state: localStorage.setItem('persist:root', ...),
\* through the hook once it is installed.
GameWrites(shape, l, g) ==
  /\ ls.entries["persist:root"] \in {Absent} \cup {gameEntry(shape, p[1], p[2]) : p \in GamePositions}
  /\ saverStarted => TimerFree(timers)
  /\ ls' = [ls EXCEPT !.entries["persist:root"] = gameEntry(shape, l, g)]
  /\ timers' = IF saverStarted THEN [timers EXCEPT !["setItem"] = @ + 1] ELSE timers
  /\ lastKnownProgress' = IF saverStarted
                          THEN hookParse(gameEntry(shape, l, g), lastKnownProgress)
                          ELSE lastKnownProgress
  /\ invoked' = NoHandler
  /\ lastSave' = NoSave
  /\ nextSaved' = NoProgress
  /\ UNCHANGED <<otherVars, lastSavedLevel, lastSavedLevelGroup, saveInProgress,
                 saverStarted, saving, marker>>

\* Another tab has written 'playerProgress': the storage event, whose
\* listener sets a timer.
OtherTabWrites(l, g) ==
  /\ saverStarted => TimerFree(timers)
  /\ ls' = [ls EXCEPT !.playerProgress = progressEntry(Progress(l, g, GameGroups))]
  /\ timers' = IF saverStarted THEN [timers EXCEPT !["storage"] = @ + 1] ELSE timers
  /\ invoked' = NoHandler
  /\ lastSave' = NoSave
  /\ nextSaved' = NoProgress
  /\ UNCHANGED <<otherVars, lastSavedLevel, lastSavedLevelGroup, saveInProgress,
                 lastKnownProgress, saverStarted, saving, marker>>

\* The callback that the setItem hook has set with setTimeout.
SetItemTimerFires ==
  /\ timers["setItem"] > 0
  /\ Detected("setItem", [timers EXCEPT !["setItem"] = @ - 1], TRUE)
  /\ UNCHANGED <<otherVars, saverStarted>>

\* The callback that the storage listener has set with setTimeout.
StorageTimerFires ==
  /\ timers["storage"] > 0
  /\ Detected("storage", [timers EXCEPT !["storage"] = @ - 1], FALSE)
  /\ UNCHANGED <<otherVars, saverStarted>>

\* The MutationObserver of watchForLevelScreen finds a level on the screen.
DomObserved ==
  /\ saverStarted
  /\ Detected("dom", timers, TRUE)
  /\ UNCHANGED <<otherVars, saverStarted>>

\* handleNextButtonClick: the progress it goes on with when the extraction r
\* gave it none with a level: a copy of lastKnownProgress, or else the
\* markers with the 'levelGroups' entry, or else nothing.
clickProgress(r, level, group, groups) ==
  IF r.p.some /\ r.p.level # UNDEF_N THEN r.p
  ELSE IF r.known.some THEN r.known
  ELSE IF level # NULL_N \/ group # NULL_N THEN Progress(level, group, groups)
  ELSE r.p

\* The progress object that handleNextButtonClick saves for cur: the next
\* level, or cur itself when calculateNextLevel returns null.
clickSaves(cur) ==
  LET next == calculateNextLevel(cur.level, cur.group, cur.lg)
  IN IF next.found THEN Progress(next.nextLevel, next.nextLevelGroup, cur.lg) ELSE cur

\* handleNextButtonClick, up to its return or to await savePlayerProgress.
NextButtonClick ==
  /\ saverStarted
  /\ \E r \in {extractProgressFromState(ls, globalStore, lastKnownProgress, FALSE)} :
       \E cur \in {clickProgress(r, lastSavedLevel, lastSavedLevelGroup, ls.levelGroups)} :
         IF ~cur.some \/ cur.level = UNDEF_N
         THEN NoInvoke("next", cur, r.known, timers)
         ELSE Invoke(IF calculateNextLevel(cur.level, cur.group, cur.lg).found
                     THEN "next" ELSE "nextNull",
                     clickSaves(cur), r.known, timers, lastSavedLevel,
                     lastSavedLevelGroup, marker)
  /\ UNCHANGED <<otherVars, saverStarted>>

\* window.savePlayerProgress(), which is defined as soon as the script runs.
ManualSave ==
  /\ \E r \in {extractProgressFromState(ls, globalStore, lastKnownProgress, FALSE)} :
       IF r.p.some
       THEN Invoke("manual", r.p, r.known, timers, lastSavedLevel,
                   lastSavedLevelGroup, marker)
       ELSE NoInvoke("manual", r.p, r.known, timers)
  /\ UNCHANGED <<otherVars, saverStarted>>

\* The storageSet call of the waiting invocation i settles (it resolves with
\* true or false, or it rejects) and the invocation resumes: it writes the
\* compatibility keys, releases the guard in its finally block and returns;
\* a Next-button handler that awaited it then sets the markers.
SaveResumes(i) ==
  /\ i \in 1..Len(saving)
  /\ \E r \in {"true", "false", "threw"}, cf \in CompatFaults :
       /\ ls' = compatWrite(ls, saving[i].data, cf)
       /\ lastSave' = [returned |-> TRUE, skipped |-> FALSE,
                       ready |-> TRUE, local |-> saving[i].local,
                       remote |-> r, compat |-> cf,
                       steps |-> Append(saving[i].steps, "compat")]
       /\ saveInProgress' = guardAfterSave(cf)
  /\ saving' = SubSeq(saving, 1, i - 1) \o SubSeq(saving, i + 1, Len(saving))
  /\ Markers(saving[i].by, saving[i].data, lastSavedLevel, lastSavedLevelGroup, marker)
  /\ invoked' = NoHandler
  /\ UNCHANGED <<otherVars, lastKnownProgress, saverStarted, timers, nextSaved>>

\* The saver on a loaded page, with the wrapper's handshake going on.
InitSaver ==
  /\ Init
  /\ vkBridgeDefined
  /\ readyState = "complete"
  /\ localStore = [k \in Keys |-> NULL]
  /\ remoteStore = [k \in Keys |-> NULL]

NextSaver ==
  \/ \E i \in {1, 2} : AutoInit(i)
  \/ \E c \in CallIds : DeliverInit(c)
  \/ SaverInitialize
  \/ \E sh \in GameShapes, p \in GamePositions : GameWrites(sh, p[1], p[2])
  \/ OtherTabWrites(MaxLevel, 0)
  \/ SetItemTimerFires
  \/ StorageTimerFires
  \/ DomObserved
  \/ NextButtonClick
  \/ ManualSave
  \/ \E i \in 1..MaxSaves : SaveResumes(i)

SpecSaver == InitSaver /\ [][NextSaver]_vars

SaverTypeOK ==
  /\ saveInProgress \in BOOLEAN
  /\ Len(saving) <= MaxSaves
  /\ \A t \in TimerKinds : timers[t] \in 0..MaxTimers
  /\ timers["setItem"] + timers["storage"] <= MaxTimers

\* A handler of the saver, or a resumed invocation, has just run.
SaverActs == saverVars' # saverVars

\* (level, group) of a progress object, and of what 'playerProgress' records.
pairOf(p) == <<p.level, p.group>>

recordedPair(st) ==
  IF st.playerProgress.c = "json"
  THEN <<levelOf(st.playerProgress.v.self), groupOf(st.playerProgress.v.self)>>
  ELSE <<UNDEF_N, UNDEF_N>>

\* An invocation that arrives while the guard is held returns without
\* writing anything, locally or remotely.
ArrivalStep ==
  (SaverActs /\ invoked'.called /\ saveInProgress)
    => (lastSave'.skipped /\ ls' = ls /\ saving' = saving /\ saveInProgress')

\* C25: at most one savePlayerProgress invocation is past the guard at any
\* time, and an invocation that arrives while another one is in progress
\* returns without writing anything.
C25_SavesMutuallyExclusive ==
  /\ [](Len(saving) <= 1)
  /\ [][ArrivalStep]_vars

\* C25 witness: a handler has called savePlayerProgress while another
\* invocation was waiting for storageSet, and the call was dropped.
C25_Witness ==
  /\ invoked.called
  /\ lastSave.returned
  /\ lastSave.skipped
  /\ Len(saving) = 1
  /\ saveInProgress

\* The saver with the game, the setItem hook and the Next button only, and
\* with fairness: a storageSet request that settles does so eventually, and
\* the invocation that awaits it then resumes.
NextSaverFair ==
  \/ \E i \in {1, 2} : AutoInit(i)
  \/ \E c \in CallIds : DeliverInit(c)
  \/ SaverInitialize
  \/ \E sh \in GameShapes, p \in GamePositions : GameWrites(sh, p[1], p[2])
  \/ SetItemTimerFires
  \/ NextButtonClick
  \/ \E i \in 1..MaxSaves : SaveResumes(i)

SpecSaverFair ==
  /\ InitSaver
  /\ [][NextSaverFair]_vars
  /\ WF_vars(\E i \in 1..MaxSaves : SaveResumes(i))

\* C26: the guard is held only by an invocation that waits for storageSet,
\* and it is released again after every save that passed it, whichever of
\* the local write, the remote write and the compatibility writes failed.
C26_GuardReleased ==
  /\ [](saveInProgress => Len(saving) = 1)
  /\ saveInProgress ~> ~saveInProgress

\* C26 witness: an invocation has returned with the guard released although
\* its local write threw, storageSet rejected and the compatibility writes
\* threw.
C26_Witness ==
  /\ lastSave.returned
  /\ lastSave.local = "threw"
  /\ lastSave.remote = "threw"
  /\ lastSave.compat = "threw"
  /\ ~saveInProgress

\* C27: an invocation that passed the guard attempts the local write of
\* 'playerProgress' first, then the remote write whenever the wrapper is
\* ready (even if the local write threw), then the compatibility keys (even
\* if the remote write returned false or threw), and returns only after
\* these steps.
C27_StepsOrderedIsolated ==
  (lastSave.returned /\ ~lastSave.skipped) =>
    /\ lastSave.steps = IF lastSave.ready THEN <<"local", "remote", "compat">>
                        ELSE <<"local", "compat">>
    /\ lastSave.local \in LocalFaults
    /\ lastSave.ready <=> lastSave.remote \in {"true", "false", "threw"}
    /\ lastSave.compat \in CompatFaults
    /\ lastSave.compat = "ok" => (ls.currentLevel # NULL_N /\ ls.currentLevelGroup # NULL_N)

\* C27 witness: an invocation whose local write threw and whose remote write
\* returned false has written the compatibility keys and returned.
C27_Witness ==
  /\ lastSave.returned
  /\ lastSave.local = "threw"
  /\ lastSave.remote = "false"
  /\ lastSave.compat = "ok"
  /\ ls.playerProgress = Absent
  /\ ls.currentLevel # NULL_N

\* C28: when a detection path has set the markers last and neither a save is
\* waiting nor a timer pending, 'playerProgress' in localStorage records the
\* level and the group that the markers hold.
C28_MarkerMatchesPersisted ==
  (marker = "detect" /\ saving = << >> /\ timers = NoTimers)
    => recordedPair(ls) = <<lastSavedLevel, lastSavedLevelGroup>>

\* A detection path calls savePlayerProgress only for a pair that differs
\* from the markers, and has set the markers to that pair when it calls.
DetectionStep ==
  (SaverActs /\ invoked'.by \in DetectKinds) =>
    /\ invoked'.called =>
         /\ pairOf(invoked'.data) # <<lastSavedLevel, lastSavedLevelGroup>>
         /\ pairOf(invoked'.data) = <<lastSavedLevel', lastSavedLevelGroup'>>
    /\ (invoked'.data.some /\ pairOf(invoked'.data) = <<lastSavedLevel, lastSavedLevelGroup>>)
         => (~invoked'.called /\ ls' = ls /\ saving' = saving)

\* C29: the setItem monitor, the DOM observer and the storage listener call
\* savePlayerProgress only when the extracted (level, group) differs from the
\* markers, and set the markers to it before the call, so that a repeated
\* detection of the same pair does not save again.
C29_DuplicatesSuppressed == [][DetectionStep]_vars

\* C29 witness: a detection path has extracted the pair that an earlier
\* detection had set the markers to, and has not called savePlayerProgress.
C29_Witness ==
  /\ invoked.by \in DetectKinds
  /\ ~invoked.called
  /\ invoked.data.some
  /\ marker = "detect"
  /\ pairOf(invoked.data) = <<lastSavedLevel, lastSavedLevelGroup>>

\* What a click on the Next button is to save in the current state: nothing
\* (some = FALSE) when no progress with a level can be obtained.
clickTarget ==
  LET r == extractProgressFromState(ls, globalStore, lastKnownProgress, FALSE)
      cur == clickProgress(r, lastSavedLevel, lastSavedLevelGroup, ls.levelGroups)
  IN IF cur.some /\ cur.level # UNDEF_N THEN clickSaves(cur) ELSE NoProgress

\* A click that obtains progress writes the record for the next level (for
\* the current one when there is no next level) to 'playerProgress' and
\* starts the remote write when the wrapper is ready; when the handler
\* ends, the markers are the level and group of that record.
NextHandlerStep ==
  /\ (SaverActs /\ invoked'.by \in NextKinds /\ invoked'.called) =>
       /\ invoked'.data = clickTarget
       /\ ls'.playerProgress = progressEntry(clickTarget)
       /\ Ready => Len(saving') = Len(saving) + 1
       /\ lastSave'.returned =>
            <<lastSavedLevel', lastSavedLevelGroup'>> = pairOf(clickTarget)
  /\ (Len(saving') < Len(saving) /\ saving[1].by \in NextKinds) =>
       <<lastSavedLevel', lastSavedLevelGroup'>> = pairOf(saving[1].data)

\* C30: a click on the Next button for which progress with a level is
\* obtained saves the record of the next level (n, g) that calculateNextLevel
\* gives, or of the current level when it gives null, to local
\* 'playerProgress' and to the remote store when ready, and the markers
\* hold that level and group when the handler has ended.
C30_NextButtonSave == [][NextHandlerStep]_vars

\* ------------------------------------------- calculateNextLevel on its own
\* A call of calculateNextLevel(currentLevel, currentLevelGroup, levelGroups)
\* whose arguments are kept next to what it returned.
CallNext(currentLevel, currentLevelGroup, levelGroups) ==
  /\ LET r == calculateNextLevel(currentLevel, currentLevelGroup, levelGroups)
         t == calculateNextLevelTry(currentLevel, currentLevelGroup, levelGroups)
     IN scrape' = [Scraped("calculateNextLevel", r.threw, t.threw, NoProgress, r)
                     EXCEPT !.args = <<currentLevel, currentLevelGroup, levelGroups>>]
  /\ UNCHANGED <<envVars, startVars, adsVars, bridgeVars, ls, globalStore, lastSavedLevel,
                 lastSavedLevelGroup, saveInProgress, lastKnownProgress, saverStarted,
                 timers, saving, invoked, lastSave, marker, nextSaved>>

InitNextLevel ==
  /\ Init
  /\ ~wrapperPresent
  /\ localStore = [k \in Keys |-> NULL]
  /\ remoteStore = [k \in Keys |-> NULL]

NextNextLevel ==
  \E l \in LevelVals, g \in LevelVals, lg \in LevelGroupsSet : CallNext(l, g, lg)

SpecNextLevel == InitNextLevel /\ [][NextNextLevel]_vars

\* The groups of levelGroups are objects that have a levels array.
WellFormed(levelGroups) ==
  \A i \in 1..Len(levelGroups.items) :
     levelGroups.items[i].k = "obj" /\ levelGroups.items[i].levels >= 0

\* The game's rule for the level after level l of group c, c being a 0-based
\* index in levelGroups.
ruleNext(l, c, levelGroups) ==
  IF ~levelGroups.arr THEN NoNext
  ELSE LET items == levelGroups.items
           nonCustom == { i \in 0..(Len(items) - 1) : ~items[i + 1].isCustom }
           later == { d \in nonCustom : d > c }
       IN IF c \notin nonCustom THEN NoNext
          ELSE IF l + 1 < items[c + 1].levels THEN NextAt(l + 1, c)
          ELSE IF later # {} THEN NextAt(0, CHOOSE d \in later : \A e \in later : d <= e)
          ELSE NoNext

\* C33: for a level index l and groups that are objects with levels,
\* calculateNextLevel returns what the game's rule gives: (l + 1, c) while
\* group c has a level l + 1, else level 0 of the next non-custom group, else
\* null; and null when levelGroups is no array, when there is no non-custom
\* group, or when group c is custom or out of range.
C33_FollowsGameRule ==
  (scrape.fn = "calculateNextLevel" /\ scrape.args[1] \in Levels /\ WellFormed(scrape.args[3]))
    => /\ ~scrape.threw
       /\ scrape.next = ruleNext(scrape.args[1], scrape.args[2], scrape.args[3])

\* C33 witness: from the last level of group 0 the call has gone to level 0
\* of group 2, group 1 being custom.
C33_Witness ==
  /\ scrape.fn = "calculateNextLevel"
  /\ scrape.args = <<0, 0, GroupsArray(<<GroupObj(FALSE, 1), GroupObj(TRUE, 2), GroupObj(FALSE, 1)>>)>>
  /\ scrape.next = NextAt(0, 2)

\* C34: whenever calculateNextLevel returns (nextLevel, nextLevelGroup),
\* nextLevelGroup is the index of a non-custom group of levelGroups and
\* 0 <= nextLevel < the number of levels of that group.
C34_ReturnsExistingLevel ==
  (scrape.fn = "calculateNextLevel" /\ scrape.next.found)
    => LET items == scrape.args[3].items
           g == scrape.next.nextLevelGroup
       IN /\ g \in 0..(Len(items) - 1)
          /\ items[g + 1].k = "obj"
          /\ ~items[g + 1].isCustom
          /\ 0 <= scrape.next.nextLevel
          /\ scrape.next.nextLevel < items[g + 1].levels

\* ------------------------------------- savePlayerProgress, then extraction
\* The progress objects that savePlayerProgress is called with.
ProgressArgs ==
  { Progress(l, g, lg) : l \in LevelVals, g \in LevelVals, lg \in {NoLevelGroups, GameGroups} }

\* savePlayerProgress(p), called as such.
SaveProgress(p) ==
  /\ Invoke("direct", p, lastKnownProgress, timers, lastSavedLevel, lastSavedLevelGroup,
            marker)
  /\ UNCHANGED <<otherVars, saverStarted>>

\* What 'playerProgress' and the two single keys hold before the call: nothing,
\* or what an earlier save of level 1 of group 1 has left.
StaleVals ==
  { NoEntries,
    [NoEntries EXCEPT !.playerProgress = progressEntry(Progress(1, 1, NoLevelGroups)),
                      !.currentLevel = 1, !.currentLevelGroup = 1] }

\* No wrapper: savePlayerProgress returns without waiting for a remote write.
\* localStorage holds no game-state key.
InitRoundTrip ==
  /\ InitBridge
  /\ ~wrapperPresent
  /\ localStore = [k \in Keys |-> NULL]
  /\ remoteStore = [k \in Keys |-> NULL]
  /\ ls \in StaleVals
  /\ globalStore = NoStore
  /\ lastSavedLevel = NULL_N
  /\ lastSavedLevelGroup = NULL_N
  /\ saveInProgress = FALSE
  /\ lastKnownProgress = NoProgress
  /\ saverStarted = FALSE
  /\ timers = NoTimers
  /\ saving = << >>
  /\ invoked = NoHandler
  /\ lastSave = NoSave
  /\ marker = "none"
  /\ scrape = NoScrape
  /\ nextSaved = NoProgress

\* One call of savePlayerProgress, and calls of extractProgressFromState.
NextRoundTrip ==
  \/ \E p \in ProgressArgs : ~invoked.called /\ SaveProgress(p)
  \/ ScrapeState

SpecRoundTrip == InitRoundTrip /\ [][NextRoundTrip]_vars

\* localStorage holds no game-state key.
NoStateKey(st) == \A k \in StateKeys : st.entries[k] = Absent

\* extractProgressFromState is called right after a savePlayerProgress(p)
\* that went past the guard and returned with all its local writes done, and
\* its try block does not throw.
ExtractAfterSave ==
  /\ scrape' # scrape
  /\ scrape'.fn = "extractProgressFromState"
  /\ ~scrape'.caught
  /\ invoked.called
  /\ lastSave.returned
  /\ ~lastSave.skipped
  /\ lastSave.local = "ok"
  /\ lastSave.compat = "ok"
  /\ NoStateKey(ls)

RoundTripStep ==
  ExtractAfterSave => (scrape'.p.some /\ pairOf(scrape'.p) = pairOf(invoked.data))

\* C35: with no game-state key in localStorage, extractProgressFromState
\* called after a completed savePlayerProgress(p) returns the currentLevel
\* and the currentLevelGroup of p, undefined and zero included.
C35_SaveExtractRoundTrip == [][RoundTripStep]_vars

\* C31: after a Next-button save of the next level (n, g), with nothing
\* written by the game since, once no timer is pending and no save is waiting
\* 'playerProgress' still records (n, g).
C31_NextSaveNotUndone ==
  (nextSaved.some /\ timers = NoTimers /\ saving = << >>)
    => recordedPair(ls) = pairOf(nextSaved)

\* The saver with the game, the setItem hook and the Next button, the browser
\* firing every timer that was set. A storageSet request may stay unanswered.
SpecSaverTimers ==
  /\ InitSaver
  /\ [][NextSaverFair]_vars
  /\ WF_vars(SetItemTimerFires)

\* A step of the saver that nothing outside it asked for: the callback of a
\* timer that the setItem hook has set, or a save that resumes when
\* storageSet has settled.
OwnStep ==
  \/ SetItemTimerFires
  \/ \E i \in 1..MaxSaves : SaveResumes(i)

\* From some point on the game writes nothing and the player clicks nothing.
Quiet == <>[][OwnStep]_vars

\* No timer is pending and no save is waiting.
AtRest == timers = NoTimers /\ saving = << >>

gameKeys ==
  <<"gameState", "playerProgress", "currentLevel", "completedLevels", "userBoards",
    "progress">>

\* Bound: start-screen checks and gameStorage.loadProgress calls in a run.
MaxLoadEvents == 3

\* Variant: loadPlayerProgress has no guard.
loadGuardPassesAlways(attempted) == TRUE

\* if (progressLoadAttempted) { ...; return; }
loadGuardPasses(attempted) == ~attempted

\* loadPlayerProgress(), up to its first await: past the guard it sets the
\* flag and calls enhancedGetItem(gameKeys[0]).
loadPlayerProgress ==
  IF loadGuardPasses(progressLoadAttempted)
  THEN /\ progressLoadAttempted' = TRUE
       /\ loads' = Append(loads, 1)
       /\ loadRead' = Append(loadRead, gameKeys[1])
  ELSE UNCHANGED <<progressLoadAttempted, loads, loadRead>>

\* checkStartScreen() with div._541cc in the document: called by
\* watchForStartScreen and by its MutationObserver.
StartScreenSeen ==
  /\ Started("loader")
  /\ loadEvents < MaxLoadEvents
  /\ loadEvents' = loadEvents + 1
  /\ IF ~isStartScreenLoaded
     THEN /\ isStartScreenLoaded' = TRUE
          /\ loadPlayerProgress
     ELSE UNCHANGED <<isStartScreenLoaded, progressLoadAttempted, loads, loadRead>>
  /\ UNCHANGED <<envVars, saverVars, adsVars, bridgeVars, startPc, attempts>>

\* window.gameStorage.loadProgress()
CallLoadProgress ==
  /\ loadEvents < MaxLoadEvents
  /\ loadEvents' = loadEvents + 1
  /\ loadPlayerProgress
  /\ UNCHANGED <<envVars, saverVars, adsVars, bridgeVars, startPc, attempts,
                 isStartScreenLoaded>>

\* The promise of the enhancedGetItem call that invocation i awaits settles,
\* and the loop goes on: to the next key, or to its end after the last key or
\* in the catch block when the promise rejected.
LoadReadSettles(i, outcome) ==
  /\ i \in 1..Len(loads)
  /\ loads[i] > 0
  /\ IF outcome = "resolved" /\ loads[i] < Len(gameKeys)
     THEN /\ loads' = [loads EXCEPT ![i] = @ + 1]
          /\ loadRead' = Append(loadRead, gameKeys[loads[i] + 1])
     ELSE /\ loads' = [loads EXCEPT ![i] = 0]
          /\ UNCHANGED loadRead
  /\ UNCHANGED <<envVars, saverVars, adsVars, bridgeVars, startPc, attempts,
                 isStartScreenLoaded, progressLoadAttempted, loadEvents>>

InitLoad ==
  /\ Init
  /\ localStore = [k \in Keys |-> NULL]
  /\ remoteStore = [k \in Keys |-> NULL]

NextLoad ==
  \/ \E i \in {1, 2} : AutoInit(i)
  \/ \E c \in CallIds : DeliverInit(c)
  \/ \E s \in Scripts : Initialize(s)
  \/ \E s \in Scripts : TimerFires(s)
  \/ StartScreenSeen
  \/ CallLoadProgress
  \/ \E i \in 1..MaxLoadEvents, outcome \in {"resolved", "rejected"} : LoadReadSettles(i, outcome)

SpecLoad == InitLoad /\ [][NextLoad]_vars

\* C36: whatever the number of start-screen checks and of loadProgress
\* calls, at most one invocation of loadPlayerProgress gets past its guard,
\* and the keys it has passed to enhancedGetItem are the first keys of
\* gameKeys in their order, one more only when the read before has settled.
C36_LoadedAtMostOnce ==
  /\ Len(loads) <= 1
  /\ Len(loadRead) <= Len(gameKeys)
  /\ \A i \in 1..Len(loadRead) : loadRead[i] = gameKeys[i]
  /\ \A i \in 1..Len(loads) : loads[i] > 0 => Len(loadRead) = loads[i]

\* C36 witness: the third key is being read by the only invocation, all the
\* checks and calls of the bound having been made after the start screen
\* appeared.
C36_Witness ==
  /\ isStartScreenLoaded
  /\ loadEvents = MaxLoadEvents
  /\ loads = <<3>>
  /\ loadRead = <<"gameState", "playerProgress", "currentLevel">>

====
